---- MODULE Spec2Model ----
(***************************************************************************)
(* Model of the SLMS Phase 3.6 accounting test harness                     *)
(* (src/PHASE_3.6_TEST_EXECUTION.py).  The harness logs in to the ledger's *)
(* HTTP API, runs five accounting scenarios and a cross-validation against *)
(* the ledger, prints a summary, persists the results and exits.           *)
(* Further specifications model the API client by itself (SpecClient),     *)
(* deep_merge of src/merge_translations.py (SpecMerge) and the main        *)
(* procedure of src/check_arabic_translation.py (SpecChecker).             *)
(*                                                                         *)
(* Amounts are whole currency units.  Python None is the integer -1 (no    *)
(* identifier of the database is negative).  The three values a recorded   *)
(* outcome can take (True, False, None) are the strings "True", "False"    *)
(* and "None".                                                             *)
(***************************************************************************)
EXTENDS Integers, Sequences, FiniteSets, TLC

\* ------------------------------------------------------------------ bounds
\* Number of earlier complete harness runs whose posted entries may already
\* be in the tenant's books when the run starts.
MaxPriorRuns == 1
\* Number of scenario invocations in the free-order specification SpecRepeat.
MaxCalls == 5

\* ------------------------------------------------------- program constants
None == -1

TEST_COMPANY_ID == 1

\* A second tenant of the same database.
OTHER_COMPANY_ID == 2

ACCOUNTS ==
  [CASH |-> "1010", CAPITAL |-> "3100", SALES_REVENUE |-> "4100",
   COGS |-> "5100", SALARY_EXPENSE |-> "6100"]

\* "abs(a - b) < 0.01" on whole currency units: 100 * |a - b| < TolHundredths.
TolHundredths == 1

Abs(x) == IF x < 0 THEN -x ELSE x

WithinTolerance(a, b) == 100 * Abs(a - b) < TolHundredths

\* Truthiness with every value taken as true: "if not x" never fires.
TruthyAlways(x) == TRUE

\* Python truthiness of an Optional[int]: None and 0 are falsy.
Truthy(x) == x # None /\ x # 0

\* ------------------------------------------------------------ entry data
Line(acc, d, c) == [account_id |-> acc, debit_amount |-> d, credit_amount |-> c]

\* The entries with a mistyped credit amount in scenario 3.
EntryDetailsTypo(k, a, b) ==
  CASE k = 1 -> <<Line(a, 100000, 0), Line(b, 0, 100000)>>
    [] k = 2 -> <<Line(a, 1000, 0),   Line(b, 0, 500)>>
    [] k = 3 -> <<Line(a, 50000, 0),  Line(b, 0, 5000)>>
    [] k = 4 -> <<Line(b, 20000, 0),  Line(a, 0, 20000)>>
    [] k = 5 -> <<Line(b, 30000, 0),  Line(a, 0, 30000)>>

\* The 'details' list each scenario submits, given the two resolved ids.
EntryDetails(k, a, b) ==
  CASE k = 1 -> <<Line(a, 100000, 0), Line(b, 0, 100000)>>
    [] k = 2 -> <<Line(a, 1000, 0),   Line(b, 0, 500)>>
    [] k = 3 -> <<Line(a, 50000, 0),  Line(b, 0, 50000)>>
    [] k = 4 -> <<Line(b, 20000, 0),  Line(a, 0, 20000)>>
    [] k = 5 -> <<Line(b, 30000, 0),  Line(a, 0, 30000)>>

\* The second account code of scenario k (the first is always CASH).
SecondCode(k) ==
  CASE k = 1 -> ACCOUNTS.CAPITAL
    [] k = 2 -> ACCOUNTS.CAPITAL
    [] k = 3 -> ACCOUNTS.SALES_REVENUE
    [] k = 4 -> ACCOUNTS.SALARY_EXPENSE
    [] k = 5 -> ACCOUNTS.COGS

ScenarioName(k) ==
  CASE k = 1 -> "Scenario 1: Basic Balanced Entry"
    [] k = 2 -> "Scenario 2: Unbalanced Entry Rejection"
    [] k = 3 -> "Scenario 3: Revenue Transaction"
    [] k = 4 -> "Scenario 4: Expense Transaction"
    [] k = 5 -> "Scenario 5: COGS Transaction"
    [] k = 6 -> "Cross-Validation: TB = GL"

\* The amount scenarios 3, 4, 5 expect on the account they verify.
ExpectedAmount(k) ==
  CASE k = 3 -> 50000
    [] k = 4 -> 20000
    [] k = 5 -> 30000

RECURSIVE SumDebit(_)
SumDebit(ls) ==
  IF ls = << >> THEN 0 ELSE Head(ls).debit_amount + SumDebit(Tail(ls))

RECURSIVE SumCredit(_)
SumCredit(ls) ==
  IF ls = << >> THEN 0 ELSE Head(ls).credit_amount + SumCredit(Tail(ls))

\* ------------------------------------------------- persisted tables (read)
\* chart_of_accounts rows: [id, account_code, company_id, deleted].
\* journal_entries rows:   [id, company_id, status, deleted, details], with
\* the journal_entry_details rows of the entry in 'details':
\* [account_id, company_id, debit_amount, credit_amount].

\* SELECT id FROM chart_of_accounts WHERE account_code = code AND
\* company_id = company AND deleted_at IS NULL; fetchone() or None.
get_account_id(coa, code) ==
  LET rows == {r \in coa : r.account_code = code
                           /\ r.company_id = TEST_COMPANY_ID
                           /\ ~r.deleted}
  IN IF rows = {} THEN None ELSE (CHOOSE r \in rows : TRUE).id

\* The detail rows of entry e that satisfy "company_id = company".
CompanyRows(e) ==
  SelectSeq(e.details, LAMBDA d : d.company_id = TEST_COMPANY_ID)

\* The query without "status = 'posted'": rows of drafts are aggregated too.
RECURSIVE RowsAnyStatus(_, _)
RowsAnyStatus(es, n) ==
  IF n = 0 THEN << >>
  ELSE RowsAnyStatus(es, n - 1) \o
       (IF es[n].company_id = TEST_COMPANY_ID /\ ~es[n].deleted
        THEN CompanyRows(es[n]) ELSE << >>)

\* The query without "deleted_at IS NULL": rows of soft-deleted entries are
\* aggregated too.
RECURSIVE RowsWithDeleted(_, _)
RowsWithDeleted(es, n) ==
  IF n = 0 THEN << >>
  ELSE RowsWithDeleted(es, n - 1) \o
       (IF es[n].company_id = TEST_COMPANY_ID /\ es[n].status = "posted"
        THEN CompanyRows(es[n]) ELSE << >>)

\* The detail rows the trial-balance query aggregates among the first n
\* entries: rows of the company whose entry is a posted, non-deleted entry
\* of the company.
RECURSIVE PostedRows(_, _)
PostedRows(es, n) ==
  IF n = 0 THEN << >>
  ELSE PostedRows(es, n - 1) \o
       (IF es[n].company_id = TEST_COMPANY_ID /\ es[n].status = "posted"
           /\ ~es[n].deleted
        THEN CompanyRows(es[n]) ELSE << >>)

\* SUM(CASE WHEN debit_amount > 0 THEN debit_amount ELSE 0 END) of account
\* acc over the first n rows.
RECURSIVE AccDebit(_, _, _)
AccDebit(rows, acc, n) ==
  IF n = 0 THEN 0
  ELSE (IF rows[n].account_id = acc /\ rows[n].debit_amount > 0
        THEN rows[n].debit_amount ELSE 0) + AccDebit(rows, acc, n - 1)

\* SUM(CASE WHEN credit_amount > 0 THEN credit_amount ELSE 0 END) likewise.
RECURSIVE AccCredit(_, _, _)
AccCredit(rows, acc, n) ==
  IF n = 0 THEN 0
  ELSE (IF rows[n].account_id = acc /\ rows[n].credit_amount > 0
        THEN rows[n].credit_amount ELSE 0) + AccCredit(rows, acc, n - 1)

\* One row of the result: {'debit': .., 'credit': .., 'balance': debit - credit}.
BalanceRow(d, c) == [debit |-> d, credit |-> c, balance |-> d - c]

\* GROUP BY account_id over the selected rows.
GroupByAccount(rows) ==
  [a \in {rows[i].account_id : i \in 1..Len(rows)} |->
     BalanceRow(AccDebit(rows, a, Len(rows)), AccCredit(rows, a, Len(rows)))]

\* The mapping account_id -> {debit, credit, balance}.
get_trial_balance(es) == GroupByAccount(PostedRows(es, Len(es)))

RECURSIVE SumOver(_, _, _)
SumOver(tb, S, fld) ==
  IF S = {} THEN 0
  ELSE LET a == CHOOSE x \in S : TRUE
       IN (IF fld = "debit" THEN tb[a].debit ELSE tb[a].credit)
          + SumOver(tb, S \ {a}, fld)

\* sum(acc['debit'] for acc in tb.values())
TotalDebit(tb) == SumOver(tb, DOMAIN tb, "debit")

\* sum(acc['credit'] for acc in tb.values())
TotalCredit(tb) == SumOver(tb, DOMAIN tb, "credit")

\* is_balanced = abs(total_debit - total_credit) < 0.01
IsBalanced(tb) == WithinTolerance(TotalDebit(tb), TotalCredit(tb))

\* ------------------------------------------------------------- API client
\* An HTTP response as the client sees it: err is a transport error (the
\* requests call raised); body is the shape of the JSON body:
\*   "ok"       {"data": {"id": id}} / {"data": {"accessToken": .., "user": {"id": id}}}
\*   "noid"     a JSON object without the field that is read ({} or {"data": {}})
\*   "notoken"  login only: {"data": {"user": {"id": id}}}
\*   "nouser"   login only: {"data": {"accessToken": ..}}
\*   "usernull" login only: {"data": {"accessToken": .., "user": null}}
\*   "datanull" {"data": null}
\*   "notjson"  not a JSON document
Resp(err, status, body, id) ==
  [err |-> err, status |-> status, body |-> body, id |-> id]

\* create_journal_entry accepting every status from 200 to 299.
CreateAny2xx(resp) ==
  IF resp.err THEN None
  ELSE IF resp.status \in 200..299
       THEN (IF resp.body = "ok" THEN resp.id ELSE None)
       ELSE None

\* APIClient.create_journal_entry: the identifier or None.
create_journal_entry(resp) ==
  IF resp.err THEN None
  ELSE IF resp.status \in {200, 201}
       THEN (IF resp.body = "ok" THEN resp.id ELSE None)
       ELSE None

\* APIClient.post_journal_entry: True exactly on status 200.
post_journal_entry(resp) == ~resp.err /\ resp.status = 200

\* The bearer credential the API hands out (an opaque token).
TOKEN == 777

\* APIClient.login: the returned boolean and the client's fields afterwards.
login(resp, tok, uid) ==
  IF resp.err THEN [ok |-> FALSE, token |-> tok, user_id |-> uid]
  ELSE IF resp.status = 200
       THEN CASE resp.body = "ok" ->
                   [ok |-> TRUE, token |-> TOKEN, user_id |-> resp.id]
              [] resp.body = "noid" ->
                   [ok |-> TRUE, token |-> None, user_id |-> None]
              [] resp.body = "notoken" ->
                   [ok |-> TRUE, token |-> None, user_id |-> resp.id]
              [] resp.body = "nouser" ->
                   [ok |-> TRUE, token |-> TOKEN, user_id |-> None]
              [] resp.body = "usernull" ->
                   [ok |-> FALSE, token |-> TOKEN, user_id |-> uid]
              [] OTHER ->
                   [ok |-> FALSE, token |-> tok, user_id |-> uid]
       ELSE [ok |-> FALSE, token |-> tok, user_id |-> uid]

\* ------------------------------------------------- the ledger (external)
\* What the ledger does with POST /journals.
\*   "accept"      creates the entry as a draft, answers 201 with its id
\*   "reject"      creates nothing, answers 400
\*   "accept_noid" creates the entry, answers 200 with a body without data.id
\*   "accept_lost" creates the entry, the answer is lost (transport error)
\* A request without a bearer credential is rejected.
CreateOutcomes(kind, balanced, auth) ==
  IF auth = None THEN {"reject"}
  ELSE IF kind = "atomic"
       THEN (IF balanced THEN {"accept"} ELSE {"reject"})
       ELSE {"accept", "reject", "accept_noid", "accept_lost"}

\* What the ledger does with POST /journals/{id}/post.
\*   "ok"           marks the entry posted with all its lines, answers 200
\*   "fail"         changes nothing, answers 400
\*   "ok_nopersist" answers 200 but persists nothing
PostOutcomes(kind) ==
  IF kind = "atomic" THEN {"ok"}
  ELSE {"ok", "fail", "ok_nopersist"}

NextId(es) == IF es = << >> THEN 1 ELSE es[Len(es)].id + 1

DetailRows(ls) ==
  [i \in 1..Len(ls) |->
     [account_id |-> ls[i].account_id, company_id |-> TEST_COMPANY_ID,
      debit_amount |-> ls[i].debit_amount,
      credit_amount |-> ls[i].credit_amount]]

LedgerAfterCreate(es, outcome, ls) ==
  IF outcome = "reject" THEN es
  ELSE Append(es, [id |-> NextId(es), company_id |-> TEST_COMPANY_ID,
                   status |-> "draft", deleted |-> FALSE,
                   details |-> DetailRows(ls)])

CreateResponse(es, outcome) ==
  CASE outcome = "accept"      -> Resp(FALSE, 201, "ok", NextId(es))
    [] outcome = "reject"      -> Resp(FALSE, 400, "error", None)
    [] outcome = "accept_noid" -> Resp(FALSE, 200, "noid", None)
    [] outcome = "accept_lost" -> Resp(TRUE, 0, "none", None)

LedgerAfterPost(es, id, outcome) ==
  [i \in 1..Len(es) |->
     IF es[i].id # id THEN es[i]
     ELSE IF outcome = "ok" THEN [es[i] EXCEPT !.status = "posted"]
          ELSE es[i]]

PostResponse(outcome) ==
  IF outcome = "fail" THEN Resp(FALSE, 400, "error", None)
  ELSE Resp(FALSE, 200, "ok", None)

\* What the ledger answers to POST /auth/login.
LoginResponses ==
  {Resp(FALSE, 200, "ok", 9), Resp(FALSE, 401, "error", None),
   Resp(TRUE, 0, "none", None), Resp(FALSE, 200, "notjson", None),
   Resp(FALSE, 200, "usernull", None), Resp(FALSE, 200, "noid", None)}

\* ------------------------------------------------- the tenant at start-up
AccountRows ==
  {[id |-> 1, account_code |-> ACCOUNTS.CASH,
    company_id |-> TEST_COMPANY_ID, deleted |-> FALSE],
   [id |-> 2, account_code |-> ACCOUNTS.CAPITAL,
    company_id |-> TEST_COMPANY_ID, deleted |-> FALSE],
   [id |-> 3, account_code |-> ACCOUNTS.SALES_REVENUE,
    company_id |-> TEST_COMPANY_ID, deleted |-> FALSE],
   [id |-> 4, account_code |-> ACCOUNTS.SALARY_EXPENSE,
    company_id |-> TEST_COMPANY_ID, deleted |-> FALSE],
   [id |-> 5, account_code |-> ACCOUNTS.COGS,
    company_id |-> TEST_COMPANY_ID, deleted |-> FALSE]}

\* The chart of accounts with the row of one code made unusable: soft-deleted
\* (cash, salary expense), owned by another company (sales revenue) or
\* missing (capital, COGS).
ChartWithout(code) ==
  {IF r.account_code # code THEN r
   ELSE IF code \in {ACCOUNTS.CASH, ACCOUNTS.SALARY_EXPENSE}
        THEN [r EXCEPT !.deleted = TRUE]
        ELSE [r EXCEPT !.company_id = OTHER_COMPANY_ID]
   : r \in {x \in AccountRows :
              x.account_code # code
              \/ code \notin {ACCOUNTS.CAPITAL, ACCOUNTS.COGS}}}

Charts ==
  {AccountRows} \cup
  {ChartWithout(c) : c \in {ACCOUNTS.CASH, ACCOUNTS.CAPITAL,
                            ACCOUNTS.SALES_REVENUE, ACCOUNTS.SALARY_EXPENSE,
                            ACCOUNTS.COGS}}

PostedEntry(id, ls) ==
  [id |-> id, company_id |-> TEST_COMPANY_ID, status |-> "posted",
   deleted |-> FALSE, details |-> DetailRows(ls)]

\* The entries n earlier complete runs left posted in the books.
RECURSIVE PriorRuns(_)
PriorRuns(n) ==
  IF n = 0 THEN << >>
  ELSE LET es == PriorRuns(n - 1)
           b  == Len(es)
       IN es \o <<PostedEntry(b + 1, EntryDetails(1, 1, 2)),
                  PostedEntry(b + 2, EntryDetails(3, 1, 3)),
                  PostedEntry(b + 3, EntryDetails(4, 1, 4)),
                  PostedEntry(b + 4, EntryDetails(5, 1, 5))>>

\* One more entry in the books: a one-sided entry (debit cash 700) that is a
\* draft, soft-deleted, owned by another company, or posted.
ExtraEntry(es, what) ==
  LET e == PostedEntry(NextId(es), <<Line(1, 700, 0)>>)
  IN CASE what = "none"    -> es
       [] what = "draft"   -> Append(es, [e EXCEPT !.status = "draft"])
       [] what = "deleted" -> Append(es, [e EXCEPT !.deleted = TRUE])
       [] what = "other"   ->
            Append(es, [e EXCEPT !.company_id = OTHER_COMPANY_ID])
       [] what = "onesided" -> Append(es, e)

\* Books whose posted lines balance: empty or with one entry the trial
\* balance must ignore, or left by earlier runs.
BalancedBooks ==
  {ExtraEntry(<< >>, w) : w \in {"none", "draft", "deleted", "other"}}
  \cup {PriorRuns(n) : n \in 1..MaxPriorRuns}

Books == BalancedBooks \cup {ExtraEntry(<< >>, "onesided")}

\* Books without posted lines of the tenant that hold a draft, a
\* soft-deleted and a foreign one-sided entry.
RepeatBooks ==
  {ExtraEntry(ExtraEntry(ExtraEntry(<< >>, "draft"), "deleted"), "other")}

\* ------------------------------------------------------------------ state
VARIABLES
  pc,        \* position in main / run_all_scenarios
  coa,       \* chart_of_accounts rows
  ledger,    \* journal_entries rows with their detail rows
  ledgerKind,\* "arbitrary" or "atomic": how the ledger may behave
  token,     \* APIClient.token
  user_id,   \* APIClient.user_id
  tests,     \* TestResults.tests
  passed,    \* TestResults.passed
  failed,    \* TestResults.failed
  trace,     \* requests sent to the ledger and trial-balance reads, in order
  conn,      \* database connection: "none", "open", "closed"
  closes,    \* number of conn.close() calls
  summary,   \* print_summary has rendered the report
  file,      \* the result document on disk
  success,   \* value returned by run_all_scenarios: "unset", "True", "False"
  retval,    \* value returned by main: "unset", "True", "False"
  raised,    \* an exception is propagating / was caught in main
  exitCode,  \* process exit status, None while running
  clock,     \* datetime.now()
  heap,      \* merge tool: the dict objects in memory, by object identity
  base,      \* merge tool: deep_merge's first argument (an object)
  updates,   \* merge tool: deep_merge's second argument (an object)
  result,    \* merge tool: the object deep_merge returned, None before
  en_data,   \* checker: the English document
  ar_data,   \* checker: the Arabic document
  en_flat,   \* checker: flatten_dict(en_data)
  ar_flat,   \* checker: flatten_dict(ar_data), then with the missing keys
  missing_keys, \* checker: keys of en_flat that ar_flat lacks
  ar_updated, \* checker: unflatten_dict(ar_flat)
  disk,      \* merge tool: the files main reads and writes
  missing_en, \* merge tool: the loaded missing_translation_keys.json
  missing_ar, \* merge tool: the loaded missing_translation_keys_ar.json
  merged_en, \* merge tool: deep_merge(en_data, missing_en)
  merged_ar  \* merge tool: deep_merge(ar_data, missing_ar)

\* The state of the two translation tools, which the harness never touches.
toolVars == <<heap, base, updates, result, en_data, ar_data, en_flat, ar_flat,
              missing_keys, ar_updated, disk, missing_en, missing_ar,
              merged_en, merged_ar>>

vars == <<pc, coa, ledger, ledgerKind, token, user_id, tests, passed, failed,
          trace, conn, closes, summary, file, success, retval, raised, exitCode,
          clock, toolVars>>

\* The fields main leaves alone while scenarios run.
mainVars == <<conn, closes, summary, file, success, retval, exitCode>>

InitCommon ==
  /\ tests = << >>
  /\ passed = 0
  /\ failed = 0
  /\ trace = << >>
  /\ closes = 0
  /\ summary = FALSE
  /\ file = [state |-> "absent", doc |-> << >>]
  /\ success = "unset"
  /\ retval = "unset"
  /\ raised = FALSE
  /\ exitCode = None
  /\ clock = 0

\* main of the merge tool is not running.
MergeMainIdle ==
  /\ disk = << >>
  /\ missing_en = None
  /\ missing_ar = None
  /\ merged_en = None
  /\ merged_ar = None

\* The merge tool is not running.
MergeIdle ==
  /\ heap = << >>
  /\ base = None
  /\ updates = None
  /\ result = None
  /\ MergeMainIdle

\* The translation checker is not running.
CheckerIdle ==
  /\ en_data = << >>
  /\ ar_data = << >>
  /\ en_flat = << >>
  /\ ar_flat = << >>
  /\ missing_keys = {}
  /\ ar_updated = << >>

ToolsIdle == MergeIdle /\ CheckerIdle

Init ==
  /\ InitCommon
  /\ ToolsIdle
  /\ pc = "connect"
  /\ conn = "none"
  /\ token = None
  /\ user_id = None
  /\ coa \in Charts
  /\ ledger \in Books
  /\ ledgerKind = "arbitrary"

\* ------------------------------------------------------------ TestResults
\* Truthiness with None counted as true ("if passed is not False").
OutcomeNotFalse(p) == p # "False"

\* Python truthiness of a recorded outcome.
OutcomeTruthy(p) == p = "True"

\* add_test inserting the record at the head of the log.
add_test_at_head(name, p, details, entry_id) ==
  /\ tests' = <<[name |-> name, passed |-> p, details |-> details,
                 entry_id |-> entry_id, timestamp |-> clock]>> \o tests
  /\ passed' = IF OutcomeTruthy(p) THEN passed + 1 ELSE passed
  /\ failed' = IF OutcomeTruthy(p) THEN failed ELSE failed + 1
  /\ clock' = clock + 1

\* TestResults.add_test
add_test(name, p, details, entry_id) ==
  /\ tests' = Append(tests, [name |-> name, passed |-> p, details |-> details,
                             entry_id |-> entry_id, timestamp |-> clock])
  /\ passed' = IF OutcomeTruthy(p) THEN passed + 1 ELSE passed
  /\ failed' = IF OutcomeTruthy(p) THEN failed ELSE failed + 1
  /\ clock' = clock + 1

Bool(b) == IF b THEN "True" ELSE "False"

\* --------------------------------------------------------------- scenarios
\* The verdict with scenario 3 reading the debit side, as scenarios 4 and 5 do.
VerdictDebitSide(k, tb, acc) ==
  IF k = 1 THEN Bool(IsBalanced(tb))
  ELSE IF acc \notin DOMAIN tb THEN "None"
       ELSE Bool(WithinTolerance(tb[acc].debit, ExpectedAmount(k)))

\* The verdict with scenarios 3-5 asking for at least the expected amount.
VerdictAtLeast(k, tb, acc) ==
  IF k = 1 THEN Bool(IsBalanced(tb))
  ELSE IF acc \notin DOMAIN tb THEN "None"
       ELSE IF k = 3 THEN Bool(tb[acc].credit >= ExpectedAmount(k))
            ELSE Bool(tb[acc].debit >= ExpectedAmount(k))

\* The verdict of a posting scenario on the trial balance read after the post.
\* Scenario 1: the global totals agree.  Scenarios 3-5:
\*   row and abs(row[field] - amount) < 0.01, which is None without a row.
Verdict(k, tb, acc) ==
  IF k = 1 THEN Bool(IsBalanced(tb))
  ELSE IF acc \notin DOMAIN tb THEN "None"
       ELSE IF k = 3 THEN Bool(WithinTolerance(tb[acc].credit, ExpectedAmount(k)))
            ELSE Bool(WithinTolerance(tb[acc].debit, ExpectedAmount(k)))

\* The diagnostic text of a verified scenario, as <<label, number, number>>.
VerifyDetails(k, tb, acc) ==
  IF k = 1 THEN <<"Debit | Credit", TotalDebit(tb), TotalCredit(tb)>>
  ELSE IF acc \notin DOMAIN tb THEN <<"Amount", 0, 0>>
       ELSE IF k = 3 THEN <<"Amount", tb[acc].credit, 0>>
            ELSE <<"Amount", tb[acc].debit, 0>>

\* The diagnostic text scenario k records when create or post failed.
FailDetails(k, step) ==
  IF k = 1 THEN (IF step = "create" THEN <<"Failed to create entry", 0, 0>>
                 ELSE <<"Failed to post entry", 0, 0>>)
  ELSE <<"Failed to create/post entry", 0, 0>>

\* The entry identifier scenario k records when create or post failed.
FailedEntryId(k, entry_id) == None

\* Scenario 2's diagnostic text.
Scenario2Details(entry_id) ==
  IF entry_id = None
  THEN <<"System correctly rejected unbalanced entry", 0, 0>>
  ELSE <<"System incorrectly accepted unbalanced entry", 0, 0>>

\* Scenario 2's outcome with the test inverted.
Scenario2PassedInverted(entry_id) == entry_id # None

\* Scenario 2's outcome: test_passed = entry_id is None.
Scenario2Passed(entry_id) == entry_id = None

\* Entries of the trace.  op: "login", "create", "post" (requests) or "tb" (a
\* trial-balance read); sid: the scenario (6: cross-validation); debit and
\* credit: the totals of the submitted lines; id: the identifier returned by
\* create or sent with post; ok: the value the client call returned as a
\* boolean; auth: the credential in the Authorization header.
CreateEvent(k, ls, ret) ==
  [op |-> "create", sid |-> k, debit |-> SumDebit(ls), credit |-> SumCredit(ls),
   id |-> ret, ok |-> ret # None, auth |-> token]

PostEvent(k, id, ok) ==
  [op |-> "post", sid |-> k, debit |-> 0, credit |-> 0, id |-> id,
   ok |-> ok, auth |-> token]

ReadEvent(k) ==
  [op |-> "tb", sid |-> k, debit |-> 0, credit |-> 0, id |-> None,
   ok |-> TRUE, auth |-> None]

\* Unresolved with "and" in place of "or": fails only if both are missing.
UnresolvedBoth(a, b) == ~Truthy(a) /\ ~Truthy(b)

\* "if not cash_id or not <other>_id": an account was not found.
Unresolved(a, b) == ~Truthy(a) \/ ~Truthy(b)

\* An exception with no handler in main: the process dies with a traceback.
RaiseUncaught ==
  /\ raised' = TRUE
  /\ pc' = "done"

\* An exception leaves the current procedure and reaches main's handler.
Raise ==
  /\ raised' = TRUE
  /\ pc' = "except"

\* scenario_1_balanced_entry, scenario_3_revenue_transaction,
\* scenario_4_expense_transaction, scenario_5_cogs_transaction.
\* fault: which database read fails ("lookup": an account lookup, "tb": the
\* trial-balance read), co / po: what the ledger does with create / post.
PostingScenario(k, next, faults) ==
  \E fault \in faults :
  \E co \in CreateOutcomes(ledgerKind, TRUE, token) :
  \E po \in PostOutcomes(ledgerKind) :
    LET cash_id  == get_account_id(coa, ACCOUNTS.CASH)
        other_id == get_account_id(coa, SecondCode(k))
        ls       == EntryDetails(k, cash_id, other_id)
        entry_id == create_journal_entry(CreateResponse(ledger, co))
        ledger1  == LedgerAfterCreate(ledger, co, ls)
        trace1   == Append(trace, CreateEvent(k, ls, entry_id))
        posted   == post_journal_entry(PostResponse(po))
        ledger2  == LedgerAfterPost(ledger1, entry_id, po)
        trace2   == Append(trace1, PostEvent(k, entry_id, posted))
    IN
    /\ UNCHANGED <<toolVars, coa, ledgerKind, token, user_id, mainVars>>
    /\ IF fault = "lookup"
       THEN Raise /\ UNCHANGED <<ledger, trace, tests, passed, failed, clock>>
       ELSE IF Unresolved(cash_id, other_id)
       THEN /\ add_test(ScenarioName(k), "False", <<"Account IDs not found", 0, 0>>, None)
            /\ pc' = next
            /\ UNCHANGED <<ledger, trace, raised>>
       ELSE IF ~Truthy(entry_id)
       THEN /\ add_test(ScenarioName(k), "False", FailDetails(k, "create"),
                        FailedEntryId(k, entry_id))
            /\ ledger' = ledger1
            /\ trace' = trace1
            /\ pc' = next
            /\ UNCHANGED raised
       ELSE IF ~posted
       THEN /\ add_test(ScenarioName(k), "False", FailDetails(k, "post"),
                        FailedEntryId(k, entry_id))
            /\ ledger' = ledger2
            /\ trace' = trace2
            /\ pc' = next
            /\ UNCHANGED raised
       ELSE IF fault = "tb"
       THEN /\ Raise
            /\ ledger' = ledger2
            /\ trace' = trace2
            /\ UNCHANGED <<tests, passed, failed, clock>>
       ELSE /\ ledger' = ledger2
            /\ LET tb == get_trial_balance(ledger')
               IN add_test(ScenarioName(k), Verdict(k, tb, other_id),
                           VerifyDetails(k, tb, other_id), entry_id)
            /\ trace' = Append(trace2, ReadEvent(k))
            /\ pc' = next
            /\ UNCHANGED raised

\* scenario_2_unbalanced_entry
UnbalancedScenario(next, faults) ==
  \E fault \in faults :
  \E co \in CreateOutcomes(ledgerKind, FALSE, token) :
    LET cash_id    == get_account_id(coa, ACCOUNTS.CASH)
        capital_id == get_account_id(coa, SecondCode(2))
        ls         == EntryDetails(2, cash_id, capital_id)
        entry_id   == create_journal_entry(CreateResponse(ledger, co))
    IN
    /\ UNCHANGED <<toolVars, coa, ledgerKind, token, user_id, mainVars>>
    /\ IF fault = "lookup"
       THEN Raise /\ UNCHANGED <<ledger, trace, tests, passed, failed, clock>>
       ELSE IF Unresolved(cash_id, capital_id)
       THEN /\ add_test(ScenarioName(2), "False", <<"Account IDs not found", 0, 0>>, None)
            /\ pc' = next
            /\ UNCHANGED <<ledger, trace, raised>>
       ELSE /\ add_test(ScenarioName(2), Bool(Scenario2Passed(entry_id)),
                        Scenario2Details(entry_id), entry_id)
            /\ ledger' = LedgerAfterCreate(ledger, co, ls)
            /\ trace' = Append(trace, CreateEvent(2, ls, entry_id))
            /\ pc' = next
            /\ UNCHANGED raised

\* cross_validation_trial_balance
CrossValidationBody(next, faults) ==
  \E fault \in faults :
    LET tb == get_trial_balance(ledger)
    IN
    /\ UNCHANGED <<toolVars, coa, ledgerKind, token, user_id, ledger, mainVars>>
    /\ IF fault = "tb"
       THEN Raise /\ UNCHANGED <<trace, tests, passed, failed, clock>>
       ELSE /\ add_test(ScenarioName(6), Bool(IsBalanced(tb)),
                        <<"Difference", Abs(TotalDebit(tb) - TotalCredit(tb)), 0>>,
                        None)
            /\ trace' = Append(trace, ReadEvent(6))
            /\ pc' = next
            /\ UNCHANGED raised

\* -------------------------------------------------------------------- main
\* The database may fail at any read.
DbFaults == {"none", "lookup", "tb"}

\* run_all_scenarios with the call of scenario 3 left out.
NextStageSkip(stage) ==
  CASE stage = "s1" -> "s2"
    [] stage = "s2" -> "s4"
    [] stage = "s3" -> "s4"
    [] stage = "s4" -> "s5"
    [] stage = "s5" -> "cv"
    [] stage = "cv" -> "summary"

\* run_all_scenarios: the stage that follows each stage.
NextStage(stage) ==
  CASE stage = "s1" -> "s2"
    [] stage = "s2" -> "s3"
    [] stage = "s3" -> "s4"
    [] stage = "s4" -> "s5"
    [] stage = "s5" -> "cv"
    [] stage = "cv" -> "summary"

\* connect_db: a psycopg2.Error ends the process with sys.exit(1).
ConnectDb ==
  /\ pc = "connect"
  /\ \E ok \in BOOLEAN :
       IF ok THEN /\ conn' = "open"
                  /\ pc' = "login"
                  /\ UNCHANGED exitCode
             ELSE /\ exitCode' = 1
                  /\ pc' = "done"
                  /\ UNCHANGED conn
  /\ UNCHANGED <<toolVars, coa, ledger, ledgerKind, token, user_id, tests, passed, failed,
                 trace, closes, summary, file, success, retval, raised, clock>>

LoginEvent(ok) ==
  [op |-> "login", sid |-> 0, debit |-> 0, credit |-> 0, id |-> None,
   ok |-> ok, auth |-> None]

\* api.login(...) in main; "return False" when it fails.
Login ==
  /\ pc = "login"
  /\ \E resp \in LoginResponses :
       LET r == login(resp, token, user_id)
       IN /\ token' = r.token
          /\ user_id' = r.user_id
          /\ trace' = Append(trace, LoginEvent(r.ok))
          /\ IF r.ok THEN pc' = "s1" /\ UNCHANGED retval
                     ELSE pc' = "finally" /\ retval' = "False"
  /\ UNCHANGED <<toolVars, coa, ledger, ledgerKind, tests, passed, failed, conn, closes,
                 summary, file, success, raised, exitCode, clock>>

Scenario1 == pc = "s1" /\ PostingScenario(1, NextStage("s1"), DbFaults)

Scenario2 == pc = "s2" /\ UnbalancedScenario(NextStage("s2"), DbFaults)

Scenario3 == pc = "s3" /\ PostingScenario(3, NextStage("s3"), DbFaults)

Scenario4 == pc = "s4" /\ PostingScenario(4, NextStage("s4"), DbFaults)

Scenario5 == pc = "s5" /\ PostingScenario(5, NextStage("s5"), DbFaults)

CrossValidation == pc = "cv" /\ CrossValidationBody(NextStage("cv"), DbFaults)

\* run_all_scenarios returning whether anything passed.
ReturnValueAnyPassed(p, f) == p > 0

\* return self.results.failed == 0
ReturnValue(p, f) == f = 0

\* print_summary and "return self.results.failed == 0".  The success rate
\* divides by passed + failed.
PrintSummary ==
  /\ pc = "summary"
  /\ IF passed + failed = 0
     THEN Raise /\ UNCHANGED <<summary, success>>
     ELSE /\ summary' = TRUE
          /\ success' = Bool(ReturnValue(passed, failed))
          /\ pc' = "persist"
          /\ UNCHANGED raised
  /\ UNCHANGED <<toolVars, coa, ledger, ledgerKind, token, user_id, tests, passed, failed,
                 trace, conn, closes, file, retval, exitCode, clock>>

\* Whether a logged result has a __dict__ attribute: the log holds plain
\* dict objects, which have none.
HasDunderDict(t) == FALSE

\* with open(results_file, 'w') as f: json.dump([t.__dict__ for t in tests]).
\* open() creates or truncates the file (or fails); building the list raises
\* AttributeError at the first logged result, before anything is written.
Persist ==
  /\ pc = "persist"
  /\ \E opened \in BOOLEAN :
       IF ~opened
       THEN Raise /\ UNCHANGED <<file, retval>>
       ELSE IF \A i \in 1..Len(tests) : HasDunderDict(tests[i])
            THEN /\ file' = [state |-> "written", doc |-> tests]
                 /\ retval' = success
                 /\ pc' = "finally"
                 /\ UNCHANGED raised
            ELSE /\ file' = [state |-> "empty", doc |-> << >>]
                 /\ Raise
                 /\ UNCHANGED retval
  /\ UNCHANGED <<toolVars, coa, ledger, ledgerKind, token, user_id, tests, passed, failed,
                 trace, conn, closes, summary, success, exitCode, clock>>

\* except Exception: ... return False
Except ==
  /\ pc = "except"
  /\ retval' = "False"
  /\ pc' = "finally"
  /\ UNCHANGED <<toolVars, coa, ledger, ledgerKind, token, user_id, tests, passed, failed,
                 trace, conn, closes, summary, file, success, raised, exitCode,
                 clock>>

\* conn.close() as the last statement of the try block instead of in a
\* finally clause: skipped when an exception was raised.
CloseInTry ==
  /\ pc = "finally"
  /\ conn' = IF raised THEN conn ELSE "closed"
  /\ closes' = IF raised THEN closes ELSE closes + 1
  /\ pc' = "exit"
  /\ UNCHANGED <<toolVars, coa, ledger, ledgerKind, token, user_id, tests, passed, failed,
                 trace, summary, file, success, retval, raised, exitCode, clock>>

\* finally: conn.close()
Finally ==
  /\ pc = "finally"
  /\ conn' = "closed"
  /\ closes' = closes + 1
  /\ pc' = "exit"
  /\ UNCHANGED <<toolVars, coa, ledger, ledgerKind, token, user_id, tests, passed, failed,
                 trace, summary, file, success, retval, raised, exitCode, clock>>

\* The exit status with the two codes swapped.
ExitStatusSwapped(ret) == IF ret = "True" THEN 1 ELSE 0

\* sys.exit(0 if success else 1)
ExitStatus(ret) == IF ret = "True" THEN 0 ELSE 1

Exit ==
  /\ pc = "exit"
  /\ exitCode' = ExitStatus(retval)
  /\ pc' = "done"
  /\ UNCHANGED <<toolVars, coa, ledger, ledgerKind, token, user_id, tests, passed, failed,
                 trace, conn, closes, summary, file, success, retval, raised,
                 clock>>

Next ==
  \/ ConnectDb
  \/ Login
  \/ Scenario1
  \/ Scenario2
  \/ Scenario3
  \/ Scenario4
  \/ Scenario5
  \/ CrossValidation
  \/ PrintSummary
  \/ Persist
  \/ Except
  \/ Finally
  \/ Exit

Spec == Init /\ [][Next]_vars

\* ------------------------------------------- scenarios invoked in any order
\* The scenario procedures and the cross-validation of a logged-in tester,
\* invoked in any order and any number of times against the same tenant,
\* with a working database and a ledger that accepts every balanced entry,
\* posts all lines of an entry at once and refuses the unbalanced entry.
InitRepeat ==
  /\ InitCommon
  /\ ToolsIdle
  /\ pc = "free"
  /\ conn = "open"
  /\ token = TOKEN
  /\ user_id = 9
  /\ coa = AccountRows
  /\ ledger \in RepeatBooks
  /\ ledgerKind = "atomic"

MayCall == pc = "free" /\ Len(tests) < MaxCalls

Call1 == MayCall /\ PostingScenario(1, "free", {"none"})

Call2 == MayCall /\ UnbalancedScenario("free", {"none"})

Call3 == MayCall /\ PostingScenario(3, "free", {"none"})

Call4 == MayCall /\ PostingScenario(4, "free", {"none"})

Call5 == MayCall /\ PostingScenario(5, "free", {"none"})

CallCrossValidation == MayCall /\ CrossValidationBody("free", {"none"})

NextRepeat ==
  \/ Call1
  \/ Call2
  \/ Call3
  \/ Call4
  \/ Call5
  \/ CallCrossValidation

SpecRepeat == InitRepeat /\ [][NextRepeat]_vars

\* ------------------------------------------------ the API client by itself
\* The methods of one APIClient called in any order with any response of the
\* HTTP library: a transport error, or a status with a body.
MaxClientCalls == 3

\* Responses to POST /auth/login.
LoginInputs ==
  {Resp(TRUE, 0, "none", None),
   Resp(FALSE, 200, "ok", 9), Resp(FALSE, 200, "noid", None),
   Resp(FALSE, 200, "notoken", 9), Resp(FALSE, 200, "nouser", None),
   Resp(FALSE, 200, "usernull", None), Resp(FALSE, 200, "notjson", None),
   Resp(FALSE, 201, "ok", 9), Resp(FALSE, 401, "error", None),
   Resp(FALSE, 500, "notjson", None)}

\* Responses to POST /journals.
CreateInputs ==
  {Resp(TRUE, 0, "none", None),
   Resp(FALSE, 200, "ok", 5), Resp(FALSE, 201, "ok", 6),
   Resp(FALSE, 202, "ok", 7), Resp(FALSE, 200, "noid", None),
   Resp(FALSE, 201, "notjson", None), Resp(FALSE, 400, "error", None),
   Resp(FALSE, 400, "ok", 8)}

\* Responses to POST /journals/{id}/post.
PostInputs ==
  {Resp(TRUE, 0, "none", None), Resp(FALSE, 200, "ok", None),
   Resp(FALSE, 201, "ok", None), Resp(FALSE, 400, "error", None)}

\* Responses to GET /reports/income-statement and /reports/balance-sheet;
\* id stands for the report found at data.
ReportInputs ==
  {Resp(TRUE, 0, "none", None), Resp(FALSE, 200, "ok", 3),
   Resp(FALSE, 200, "notjson", None), Resp(FALSE, 404, "error", None)}

\* APIClient.get_headers: the Authorization header, 'Bearer ' + str(token).
get_headers(tok) == <<"Bearer", tok>>

\* APIClient.get_income_statement: the report or None.
get_income_statement(resp) ==
  IF resp.err THEN None
  ELSE IF resp.status = 200
       THEN (IF resp.body = "ok" THEN resp.id ELSE None)
       ELSE None

\* APIClient.get_balance_sheet: the report or None.
get_balance_sheet(resp) ==
  IF resp.err THEN None
  ELSE IF resp.status = 200
       THEN (IF resp.body = "ok" THEN resp.id ELSE None)
       ELSE None

\* One call of the client: the method, the response it received, what it
\* returned (ok: as a boolean, id: the identifier or report), the header it
\* sent (None: no header) and the client's fields when it returned.
ClientEvent(op, resp, ok, id, auth, tok, uid) ==
  [op |-> op, resp |-> resp, ok |-> ok, id |-> id, auth |-> auth,
   token |-> tok, user_id |-> uid]

InitClient ==
  /\ InitCommon
  /\ ToolsIdle
  /\ pc = "client"
  /\ conn = "none"
  /\ token = None
  /\ user_id = None
  /\ coa = AccountRows
  /\ ledger = << >>
  /\ ledgerKind = "atomic"

MayRequest == pc = "client" /\ Len(trace) < MaxClientCalls

clientFrame == <<toolVars, pc, coa, ledger, ledgerKind, tests, passed, failed, conn,
                 closes, summary, file, success, retval, raised, exitCode,
                 clock>>

ClientLogin ==
  /\ MayRequest
  /\ \E resp \in LoginInputs :
       LET r == login(resp, token, user_id)
       IN /\ token' = r.token
          /\ user_id' = r.user_id
          /\ trace' = Append(trace, ClientEvent("login", resp, r.ok, None, None,
                                                r.token, r.user_id))
  /\ UNCHANGED clientFrame

\* A method that sends get_headers() and leaves the client's fields alone.
ClientRequest(op, resp, ok, id) ==
  /\ trace' = Append(trace, ClientEvent(op, resp, ok, id, get_headers(token),
                                        token, user_id))
  /\ UNCHANGED <<token, user_id>>
  /\ UNCHANGED clientFrame

ClientCreate ==
  /\ MayRequest
  /\ \E resp \in CreateInputs :
       LET id == create_journal_entry(resp)
       IN ClientRequest("create", resp, id # None, id)

ClientPost ==
  /\ MayRequest
  /\ \E resp \in PostInputs :
       ClientRequest("post", resp, post_journal_entry(resp), None)

ClientIncomeStatement ==
  /\ MayRequest
  /\ \E resp \in ReportInputs :
       LET d == get_income_statement(resp)
       IN ClientRequest("income-statement", resp, d # None, d)

ClientBalanceSheet ==
  /\ MayRequest
  /\ \E resp \in ReportInputs :
       LET d == get_balance_sheet(resp)
       IN ClientRequest("balance-sheet", resp, d # None, d)

NextClient ==
  \/ ClientLogin
  \/ ClientCreate
  \/ ClientPost
  \/ ClientIncomeStatement
  \/ ClientBalanceSheet

SpecClient == InitClient /\ [][NextClient]_vars

\* ---------------------------------------- merge_translations.py: deep_merge
\* A dict object maps keys to values; a value is a leaf (a translation) or a
\* reference to another dict object.  Objects live in the heap, a sequence
\* indexed by object identity, so that copying and sharing are visible.
MaxDepth == 2

Leaf(v) == [leaf |-> v]

Ref(id) == [ref |-> id]

\* A nested dictionary as a value: the function from its keys to nodes.
Dict(f) == [dict |-> f]

IsLeaf(n) == "leaf" \in DOMAIN n

IsRef(n) == "ref" \in DOMAIN n

\* The key k with the node of option o (no node: the key is absent).
Part(k, o) == IF o = {} THEN << >> ELSE (k :> (CHOOSE n \in o : TRUE))

Min(a, b) == IF a < b THEN a ELSE b

\* The documents of nesting depth at most d with leaf v over the keys "a"
\* and "b"; below "b" they nest one level at most.
RECURSIVE Trees(_, _)
NodeOptions(d, v) ==
  {{}, {Leaf(v)}} \cup
  (IF d > 1 THEN {{Dict(t)} : t \in Trees(d - 1, v)} ELSE {})

Trees(d, v) ==
  {Part("a", oa) @@ Part("b", ob) :
     oa \in NodeOptions(d, v), ob \in NodeOptions(Min(d, 2), v)}

\* json.load: the objects of document d are created in heap h, children
\* first; the result is the new heap and the identity of the root object.
RECURSIVE Alloc(_, _), AllocKeys(_, _, _, _)
AllocKeys(h, d, keys, obj) ==
  IF keys = {} THEN [heap |-> h, obj |-> obj]
  ELSE LET k == CHOOSE x \in keys : TRUE
       IN IF IsLeaf(d[k])
          THEN AllocKeys(h, d, keys \ {k}, (k :> d[k]) @@ obj)
          ELSE LET c == Alloc(h, d[k].dict)
               IN AllocKeys(c.heap, d, keys \ {k}, (k :> Ref(c.id)) @@ obj)

Alloc(h, d) ==
  LET r == AllocKeys(h, d, DOMAIN d, << >>)
  IN [heap |-> Append(r.heap, r.obj), id |-> Len(r.heap) + 1]

RECURSIVE deep_merge(_, _, _), MergeItems(_, _, _, _)
\* for key, value in updates.items(): ... over the keys still to visit.
\* res is the object "result", upd the object "updates".
MergeItems(h, res, upd, keys) ==
  IF keys = {} THEN h
  ELSE LET key   == CHOOSE x \in keys : TRUE
           value == h[upd][key]
       IN IF key \in DOMAIN h[res] /\ IsRef(h[res][key]) /\ IsRef(value)
          THEN LET r == deep_merge(h, h[res][key].ref, value.ref)
               IN MergeItems([r.heap EXCEPT ![res] = (key :> Ref(r.id)) @@ @],
                             res, upd, keys \ {key})
          ELSE MergeItems([h EXCEPT ![res] = (key :> value) @@ @],
                          res, upd, keys \ {key})

\* deep_merge with "result = base" in place of "result = base.copy()".
deep_merge_in_place(h, b, u) ==
  [heap |-> MergeItems(h, b, u, DOMAIN h[u]), id |-> b]

\* deep_merge(base, updates): result = base.copy() is a new object with the
\* items of base; the loop assigns into it; the result is the new heap and
\* the identity of the returned object.
deep_merge(h, b, u) ==
  LET n == Len(h) + 1
  IN [heap |-> MergeItems(Append(h, h[b]), n, u, DOMAIN h[u]), id |-> n]

\* The nested dictionary a node stands for, without object identities.
RECURSIVE TreeOf(_, _)
TreeOf(h, n) ==
  IF ~IsRef(n) THEN n
  ELSE Dict([k \in DOMAIN h[n.ref] |-> TreeOf(h, h[n.ref][k])])

\* The harness is not running.
HarnessIdle ==
  /\ InitCommon
  /\ conn = "none"
  /\ token = None
  /\ user_id = None
  /\ coa = AccountRows
  /\ ledger = << >>
  /\ ledgerKind = "atomic"

\* Two documents were loaded, each into objects of its own.
InitMerge ==
  /\ HarnessIdle
  /\ CheckerIdle
  /\ MergeMainIdle
  /\ pc = "merge"
  /\ result = None
  /\ \E tb \in Trees(MaxDepth, "old"), tu \in Trees(MaxDepth, "new") :
       LET b == Alloc(<< >>, tb)
           u == Alloc(b.heap, tu)
       IN heap = u.heap /\ base = b.id /\ updates = u.id

\* merged = deep_merge(base, updates)
DeepMerge ==
  /\ pc = "merge"
  /\ result = None
  /\ LET r == deep_merge(heap, base, updates)
     IN heap' = r.heap /\ result' = r.id
  /\ pc' = "merged"
  /\ UNCHANGED <<base, updates>>
  /\ UNCHANGED <<coa, ledger, ledgerKind, token, user_id, tests, passed,
                 failed, trace, conn, closes, summary, file, success, retval,
                 raised, exitCode, clock, en_data, ar_data, en_flat, ar_flat,
                 missing_keys, ar_updated, disk, missing_en, missing_ar,
                 merged_en, merged_ar>>

NextMerge == DeepMerge

SpecMerge == InitMerge /\ [][NextMerge]_vars

\* ------------------------------------------- check_arabic_translation.py
\* A document is a Python dict in insertion order: a sequence of items
\* [k, v] with distinct keys.  In a nested document v is Leaf(text) or
\* Dict(items); in a flat dictionary v is the text itself.  A key is the
\* sequence of its pieces, the separator "." being a piece of its own:
\* "a.b" is <<"a", ".", "b">>.  A text is the sequence of its pieces.
MaxItems == 2

Item(k, v) == [k |-> k, v |-> v]

IsDict(n) == "dict" \in DOMAIN n

\* set(d.keys())
Keys(d) == {d[i].k : i \in DOMAIN d}

\* d[k]
DictGet(d, k) == d[CHOOSE i \in DOMAIN d : d[i].k = k].v

\* d[k] = v: an existing key keeps its position, a new key goes last.
DictSet(d, k, v) ==
  IF k \in Keys(d)
  THEN [i \in DOMAIN d |-> IF d[i].k = k THEN Item(k, v) ELSE d[i]]
  ELSE Append(d, Item(k, v))

\* dict(items): the first n items, later items replacing earlier ones.
RECURSIVE FromItems(_, _)
FromItems(items, n) ==
  IF n = 0 THEN << >>
  ELSE DictSet(FromItems(items, n - 1), items[n].k, items[n].v)

\* f"{parent_key}{sep}{k}" if parent_key else k
NewKey(parent_key, k) ==
  IF parent_key = << >> THEN k ELSE parent_key \o <<".">> \o k

\* flatten_dict(d, parent_key): the list "items" built from item i on, and
\* the dict made of it.
RECURSIVE flatten_dict(_, _), FlattenItems(_, _, _)
FlattenItems(d, parent_key, i) ==
  IF i > Len(d) THEN << >>
  ELSE (IF IsDict(d[i].v)
        THEN flatten_dict(d[i].v.dict, NewKey(parent_key, d[i].k))
        ELSE <<Item(NewKey(parent_key, d[i].k), d[i].v.leaf)>>)
       \o FlattenItems(d, parent_key, i + 1)

flatten_dict(d, parent_key) ==
  LET items == FlattenItems(d, parent_key, 1)
  IN FromItems(items, Len(items))

\* key.split('.')
RECURSIVE Split(_)
Split(key) ==
  IF \A i \in DOMAIN key : key[i] # "." THEN <<key>>
  ELSE LET i == CHOOSE j \in DOMAIN key :
                  key[j] = "." /\ \A m \in 1..(j - 1) : key[m] # "."
       IN <<SubSeq(key, 1, i - 1)>> \o Split(SubSeq(key, i + 1, Len(key)))

\* The outcome of building a dictionary: the dictionary, or a TypeError.
Built(d) == [ok |-> TRUE, d |-> d]

TypeError == [ok |-> FALSE, d |-> << >>]

\* The inner loop and the final assignment of unflatten_dict on the dict
\* "current": walk down parts[:-1], creating {} where a part is missing,
\* then current[parts[-1]] = value.  Walking into a text raises TypeError
\* ('str' object does not support item assignment / string indices must
\* be integers).
RECURSIVE SetPath(_, _, _)
SetPath(current, parts, value) ==
  IF Len(parts) = 1 THEN Built(DictSet(current, parts[1], Leaf(value)))
  ELSE LET part == Head(parts)
           next == IF part \in Keys(current) THEN DictGet(current, part)
                   ELSE Dict(<< >>)
       IN IF ~IsDict(next) THEN TypeError
          ELSE LET r == SetPath(next.dict, Tail(parts), value)
               IN IF ~r.ok THEN TypeError
                  ELSE Built(DictSet(current, part, Dict(r.d)))

\* unflatten_dict(d) over the first n items of d.
RECURSIVE UnflattenItems(_, _)
UnflattenItems(d, n) ==
  IF n = 0 THEN Built(<< >>)
  ELSE LET r == UnflattenItems(d, n - 1)
       IN IF ~r.ok THEN TypeError
          ELSE SetPath(r.d, Split(d[n].k), d[n].v)

unflatten_dict(d) == UnflattenItems(d, Len(d))

\* f"[TODO: AR] {text}"
Todo(text) == <<"[TODO: AR] ">> \o text

\* for key in missing_keys: ar_flat[key] = f"[TODO: AR] {en_flat[key]}",
\* the keys taken in the order 'order' (a set is iterated in any order).
RECURSIVE AddMissing(_, _, _, _)
AddMissing(ar, en, order, n) ==
  IF n = 0 THEN ar
  ELSE DictSet(AddMissing(ar, en, order, n - 1), order[n],
               Todo(DictGet(en, order[n])))

\* The orders in which a set can be iterated.
Orders(S) ==
  {o \in [1..Cardinality(S) -> S] : \A i, j \in DOMAIN o : o[i] = o[j] => i = j}

\* The documents json.load may return: at most MaxItems items among the
\* keys "a" (a text or a nested object), "b" and "a.b" (texts).
NestedObjects(text) ==
  {<< >>, <<Item(<<"b">>, Leaf(text))>>,
   <<Item(<<"a">>, Leaf(text)), Item(<<"b">>, Leaf(text))>>}

TopItems(text) ==
  {Item(<<"a">>, Leaf(text)), Item(<<"b">>, Leaf(text)),
   Item(<<"a", ".", "b">>, Leaf(text))}
  \cup {Item(<<"a">>, Dict(c)) : c \in NestedObjects(text)}

Documents(text) ==
  UNION {{d \in [1..n -> TopItems(text)] :
            \A i, j \in 1..n : d[i].k = d[j].k => i = j} : n \in 0..MaxItems}

\* en_data = load_json(EN_FILE); ar_data = load_json(AR_FILE)
InitChecker ==
  /\ HarnessIdle
  /\ MergeIdle
  /\ pc = "loaded"
  /\ en_data \in Documents(<<"Save">>)
  /\ ar_data \in Documents(<<"Hifz">>)
  /\ en_flat = << >>
  /\ ar_flat = << >>
  /\ missing_keys = {}
  /\ ar_updated = << >>

checkerFrame == <<coa, ledger, ledgerKind, token, user_id, tests, passed,
                  failed, trace, conn, closes, summary, success, retval,
                  exitCode, clock, heap, base, updates, result, disk,
                  missing_en, missing_ar, merged_en, merged_ar>>

\* "if not en_data: return", then steps 2 and 3 of main.
CheckerFlatten ==
  /\ pc = "loaded"
  /\ IF en_data = << >>
     THEN pc' = "returned" /\ UNCHANGED <<en_flat, ar_flat, missing_keys>>
     ELSE /\ en_flat' = flatten_dict(en_data, << >>)
          /\ ar_flat' = flatten_dict(ar_data, << >>)
          /\ missing_keys' = Keys(en_flat') \ Keys(ar_flat')
          /\ pc' = "scan"
  /\ UNCHANGED <<en_data, ar_data, ar_updated, file, raised>>
  /\ UNCHANGED checkerFrame

\* Steps 4 to 6 of main read the source tree and report; they change
\* nothing the later steps use.
CheckerScan ==
  /\ pc = "scan"
  /\ pc' = "build"
  /\ UNCHANGED <<en_data, ar_data, en_flat, ar_flat, missing_keys, ar_updated,
                 file, raised>>
  /\ UNCHANGED checkerFrame

\* Step 7 of main: the missing keys are added and the nested document is
\* built; a TypeError of unflatten_dict ends the process.
CheckerBuild ==
  /\ pc = "build"
  /\ \E order \in Orders(missing_keys) :
       LET flat == AddMissing(ar_flat, en_flat, order, Len(order))
           r    == unflatten_dict(flat)
       IN /\ ar_flat' = flat
          /\ IF r.ok
             THEN ar_updated' = r.d /\ pc' = "save" /\ UNCHANGED raised
             ELSE raised' = TRUE /\ pc' = "crashed" /\ UNCHANGED ar_updated
  /\ UNCHANGED <<en_data, ar_data, en_flat, missing_keys, file>>
  /\ UNCHANGED checkerFrame

\* save_json(ar_updated, output_file); open() may fail.
CheckerSave ==
  /\ pc = "save"
  /\ \E opened \in BOOLEAN :
       IF opened
       THEN /\ file' = [state |-> "written", doc |-> ar_updated]
            /\ pc' = "saved"
            /\ UNCHANGED raised
       ELSE /\ raised' = TRUE
            /\ pc' = "unsaved"
            /\ UNCHANGED file
  /\ UNCHANGED <<en_data, ar_data, en_flat, ar_flat, missing_keys, ar_updated>>
  /\ UNCHANGED checkerFrame

NextChecker ==
  \/ CheckerFlatten
  \/ CheckerScan
  \/ CheckerBuild
  \/ CheckerSave

SpecChecker == InitChecker /\ [][NextChecker]_vars

\* ------------------------------------------- merge_translations.py: main
\* A file on disk: "ok" with the document it holds, "unreadable" (missing
\* or not JSON), "absent", or "partial" (opened for writing and left
\* truncated by a failed write).
File(state, doc) == [state |-> state, doc |-> doc]

EN_JSON == "en.json"

AR_JSON == "ar.json"

MISSING_EN == "missing_translation_keys.json"

MISSING_AR == "missing_translation_keys_ar.json"

EN_BACKUP == "en.json.backup"

AR_BACKUP == "ar.json.backup"

\* The documents an input file may hold.
InputDocs(text) ==
  Trees(1, text) \cup {Part("a", {Dict(Part("b", {Leaf(text)}))})}

InputFiles(text) ==
  {File("unreadable", << >>)} \cup {File("ok", d) : d \in InputDocs(text)}

\* load_json(path): json.load of the file, or an exception.
load_json(h, f) ==
  IF f.state # "ok" THEN [ok |-> FALSE, heap |-> h, id |-> None]
  ELSE LET r == Alloc(h, f.doc)
       IN [ok |-> TRUE, heap |-> r.heap, id |-> r.id]

\* What writing a file may do: "ok", "noopen" (open fails, the file is left
\* as it was), "partial" (the file is truncated, then the write fails).
SaveOutcomes == {"ok", "noopen", "partial"}

\* save_json(path, data): the file afterwards.
save_json(f, h, id, outcome) ==
  CASE outcome = "ok"      -> File("ok", TreeOf(h, Ref(id)).dict)
    [] outcome = "noopen"  -> f
    [] outcome = "partial" -> File("partial", << >>)

\* main with the merged files saved before the backups are written.
MergeStageSaveFirst(stage) ==
  CASE stage = "load_en"         -> "load_ar"
    [] stage = "load_ar"         -> "load_missing_en"
    [] stage = "load_missing_en" -> "load_missing_ar"
    [] stage = "load_missing_ar" -> "merge_en"
    [] stage = "merge_en"        -> "merge_ar"
    [] stage = "merge_ar"        -> "save_en"
    [] stage = "save_en"         -> "save_ar"
    [] stage = "save_ar"         -> "backup_en"
    [] stage = "backup_en"       -> "backup_ar"
    [] stage = "backup_ar"       -> "finished"

\* main: the statement that follows each statement.
MergeStage(stage) ==
  CASE stage = "load_en"         -> "load_ar"
    [] stage = "load_ar"         -> "load_missing_en"
    [] stage = "load_missing_en" -> "load_missing_ar"
    [] stage = "load_missing_ar" -> "backup_en"
    [] stage = "backup_en"       -> "backup_ar"
    [] stage = "backup_ar"       -> "merge_en"
    [] stage = "merge_en"        -> "merge_ar"
    [] stage = "merge_ar"        -> "save_en"
    [] stage = "save_en"         -> "save_ar"
    [] stage = "save_ar"         -> "finished"

\* The four input files as found; no backup exists yet.
InitMergeMain ==
  /\ HarnessIdle
  /\ pc = "load_en"
  /\ heap = << >>
  /\ base = None
  /\ updates = None
  /\ result = None
  /\ en_data = None
  /\ ar_data = None
  /\ missing_en = None
  /\ missing_ar = None
  /\ merged_en = None
  /\ merged_ar = None
  /\ en_flat = << >>
  /\ ar_flat = << >>
  /\ missing_keys = {}
  /\ ar_updated = << >>
  /\ \E en \in InputFiles("old"), ar \in InputFiles("old"),
        men \in InputFiles("new"), mar \in InputFiles("new") :
       disk = (EN_JSON :> en) @@ (AR_JSON :> ar) @@ (MISSING_EN :> men)
              @@ (MISSING_AR :> mar) @@ (EN_BACKUP :> File("absent", << >>))
              @@ (AR_BACKUP :> File("absent", << >>))

mergeMainFrame == <<coa, ledger, ledgerKind, token, user_id, tests, passed,
                    failed, trace, conn, closes, summary, file, success,
                    retval, exitCode, clock, base, updates, result, en_flat,
                    ar_flat, missing_keys, ar_updated>>

\* An exception in main: there is no handler, the process ends.
MergeAbort ==
  /\ raised' = TRUE
  /\ pc' = "aborted"

\* x = load_json(path) at stage 'stage'; 'id' is the value x gets.
LoadStep(stage, path, id) ==
  /\ pc = stage
  /\ LET r == load_json(heap, disk[path])
     IN IF r.ok
        THEN heap' = r.heap /\ id = r.id /\ pc' = MergeStage(stage)
             /\ UNCHANGED raised
        ELSE heap' = heap /\ id = None /\ MergeAbort
  /\ UNCHANGED disk
  /\ UNCHANGED mergeMainFrame

LoadEn ==
  /\ LoadStep("load_en", EN_JSON, en_data')
  /\ UNCHANGED <<ar_data, missing_en, missing_ar, merged_en, merged_ar>>

LoadAr ==
  /\ LoadStep("load_ar", AR_JSON, ar_data')
  /\ UNCHANGED <<en_data, missing_en, missing_ar, merged_en, merged_ar>>

LoadMissingEn ==
  /\ LoadStep("load_missing_en", MISSING_EN, missing_en')
  /\ UNCHANGED <<en_data, ar_data, missing_ar, merged_en, merged_ar>>

LoadMissingAr ==
  /\ LoadStep("load_missing_ar", MISSING_AR, missing_ar')
  /\ UNCHANGED <<en_data, ar_data, missing_en, merged_en, merged_ar>>

\* save_json(path, data) at stage 'stage'.
SaveStep(stage, path, id) ==
  /\ pc = stage
  /\ \E outcome \in SaveOutcomes :
       /\ disk' = [disk EXCEPT ![path] = save_json(@, heap, id, outcome)]
       /\ IF outcome = "ok"
          THEN pc' = MergeStage(stage) /\ UNCHANGED raised
          ELSE MergeAbort
  /\ UNCHANGED <<heap, en_data, ar_data, missing_en, missing_ar, merged_en,
                 merged_ar>>
  /\ UNCHANGED mergeMainFrame

BackupEn == SaveStep("backup_en", EN_BACKUP, en_data)

BackupAr == SaveStep("backup_ar", AR_BACKUP, ar_data)

\* merged_en = deep_merge(en_data, missing_en)
MergeEn ==
  /\ pc = "merge_en"
  /\ LET r == deep_merge(heap, en_data, missing_en)
     IN heap' = r.heap /\ merged_en' = r.id
  /\ pc' = MergeStage("merge_en")
  /\ UNCHANGED <<disk, raised, en_data, ar_data, missing_en, missing_ar,
                 merged_ar>>
  /\ UNCHANGED mergeMainFrame

\* merged_ar = deep_merge(ar_data, missing_ar)
MergeAr ==
  /\ pc = "merge_ar"
  /\ LET r == deep_merge(heap, ar_data, missing_ar)
     IN heap' = r.heap /\ merged_ar' = r.id
  /\ pc' = MergeStage("merge_ar")
  /\ UNCHANGED <<disk, raised, en_data, ar_data, missing_en, missing_ar,
                 merged_en>>
  /\ UNCHANGED mergeMainFrame

SaveEn == SaveStep("save_en", EN_JSON, merged_en)

SaveAr == SaveStep("save_ar", AR_JSON, merged_ar)

NextMergeMain ==
  \/ LoadEn
  \/ LoadAr
  \/ LoadMissingEn
  \/ LoadMissingAr
  \/ BackupEn
  \/ BackupAr
  \/ MergeEn
  \/ MergeAr
  \/ SaveEn
  \/ SaveAr

SpecMergeMain == InitMergeMain /\ [][NextMergeMain]_vars

\* ------------------- check_arabic_translation.py: flatten and unflatten
\* The two functions applied one after the other, in both orders.  A key
\* may be the empty string (<< >>), which JSON allows.
\* Nested dictionaries one level down: at most two items among the keys
\* "", "a" and "a.b".
InnerKeys == {<< >>, <<"a">>, <<"a", ".", "b">>}

InnerDicts(text) ==
  UNION {{d \in [1..n -> {Item(k, Leaf(text)) : k \in InnerKeys}] :
            \A i, j \in 1..n : d[i].k = d[j].k => i = j} : n \in 0..2}

\* Nested dictionaries: at most MaxItems items among the keys "", "a", "b"
\* and "a.b", each a text or a nested dictionary (which may be empty).
OuterKeys == {<< >>, <<"a">>, <<"b">>, <<"a", ".", "b">>}

OuterItems ==
  {Item(k, Leaf(<<"x">>)) : k \in OuterKeys}
  \cup {Item(k, Dict(c)) : k \in OuterKeys, c \in InnerDicts(<<"y">>)}

NestedDicts ==
  UNION {{d \in [1..n -> OuterItems] :
            \A i, j \in 1..n : d[i].k = d[j].k => i = j} : n \in 0..MaxItems}

\* Flat dictionaries: at most MaxItems items, the keys "", "a", "b", "a.b",
\* ".a" and "a." with a text each.
FlatKeys ==
  OuterKeys \cup {<<".", "a">>, <<"a", ".">>}

FlatDicts ==
  UNION {{d \in [1..n -> {Item(k, t) : k \in FlatKeys, t \in {<<"x">>, <<"y">>}}] :
            \A i, j \in 1..n : d[i].k = d[j].k => i = j} : n \in 0..MaxItems}

\* Either a nested dictionary d (in en_data) or a flat dictionary f (in
\* ar_flat) is given.
InitRoundTrip ==
  /\ HarnessIdle
  /\ MergeIdle
  /\ missing_keys = {}
  /\ \/ /\ pc = "nested"
        /\ en_data \in NestedDicts
        /\ ar_flat = << >>
     \/ /\ pc = "flat"
        /\ en_data = << >>
        /\ ar_flat \in FlatDicts
  /\ en_flat = << >>
  /\ ar_data = << >>
  /\ ar_updated = << >>

roundTripFrame == <<en_data, ar_flat, missing_keys, file>>

\* en_flat = flatten_dict(en_data)
FlattenGiven ==
  /\ pc = "nested"
  /\ en_flat' = flatten_dict(en_data, << >>)
  /\ pc' = "flattened"
  /\ UNCHANGED <<ar_data, ar_updated, raised>>
  /\ UNCHANGED roundTripFrame
  /\ UNCHANGED checkerFrame

\* ar_updated = unflatten_dict(en_flat)
UnflattenFlattened ==
  /\ pc = "flattened"
  /\ LET r == unflatten_dict(en_flat)
     IN IF r.ok
        THEN ar_updated' = r.d /\ pc' = "rebuilt" /\ UNCHANGED raised
        ELSE raised' = TRUE /\ pc' = "crashed" /\ UNCHANGED ar_updated
  /\ UNCHANGED <<en_flat, ar_data>>
  /\ UNCHANGED roundTripFrame
  /\ UNCHANGED checkerFrame

\* ar_data = unflatten_dict(ar_flat)
UnflattenGiven ==
  /\ pc = "flat"
  /\ LET r == unflatten_dict(ar_flat)
     IN IF r.ok
        THEN ar_data' = r.d /\ pc' = "unflattened" /\ UNCHANGED raised
        ELSE raised' = TRUE /\ pc' = "crashed" /\ UNCHANGED ar_data
  /\ UNCHANGED <<en_flat, ar_updated>>
  /\ UNCHANGED roundTripFrame
  /\ UNCHANGED checkerFrame

\* en_flat = flatten_dict(ar_data)
FlattenUnflattened ==
  /\ pc = "unflattened"
  /\ en_flat' = flatten_dict(ar_data, << >>)
  /\ pc' = "reflattened"
  /\ UNCHANGED <<ar_data, ar_updated, raised>>
  /\ UNCHANGED roundTripFrame
  /\ UNCHANGED checkerFrame

NextRoundTrip ==
  \/ FlattenGiven
  \/ UnflattenFlattened
  \/ UnflattenGiven
  \/ FlattenUnflattened

SpecRoundTrip == InitRoundTrip /\ [][NextRoundTrip]_vars

\* ================================================================== claims
Stages == {"s1", "s2", "s3", "s4", "s5"}

StageNo(stage) ==
  CASE stage = "s1" -> 1 [] stage = "s2" -> 2 [] stage = "s3" -> 3
    [] stage = "s4" -> 4 [] stage = "s5" -> 5 [] OTHER -> 6

AllPassed == \A i \in 1..Len(tests) : tests[i].passed = "True"

Requests(op) == {i \in 1..Len(trace) : trace[i].op = op}

\* C1: main exits with status 0 exactly when the database connection and the
\* login succeeded and all six recorded results are passed (and the result
\* file could be opened), and with status 1 in every other run.
C1_ExitStatus ==
  pc = "done" =>
    (exitCode = 0 <=> (Len(tests) = 6 /\ AllPassed /\ file.state # "absent"))

\* C2: when login succeeded, run_all_scenarios returned and the result file
\* could be opened, the persisted document holds every recorded result in
\* order with all its fields, and gives the same counts and identifiers.
C2_ResultDocument ==
  (pc = "done" /\ success # "unset" /\ file.state # "absent") =>
    /\ file.state = "written"
    /\ Len(file.doc) = Len(tests)
    /\ \A i \in 1..Len(tests) : file.doc[i] = tests[i]
    /\ Cardinality({i \in DOMAIN file.doc : file.doc[i].passed = "True"}) = passed
    /\ Cardinality({i \in DOMAIN file.doc : file.doc[i].passed # "True"}) = failed

\* C3: every invocation of a scenario procedure returns normally and appends
\* exactly one result; no exception leaves the scenario.
C3_ScenarioAlwaysRecords ==
  [][(pc \in Stages) => (~raised' /\ Len(tests') = Len(tests) + 1)]_vars

Aborted == (conn = "none" /\ exitCode # None) \/ (retval = "False" /\ ~raised)

\* C5: after a failed database connection or a failed login no scenario
\* runs: no create or post request, no recorded result, no result file, and
\* the exit status is 1.
C5_AbortBeforeScenarios ==
  Aborted =>
    /\ Requests("create") = {} /\ Requests("post") = {} /\ Requests("tb") = {}
    /\ tests = << >> /\ passed = 0 /\ failed = 0
    /\ file.state = "absent"
    /\ ~summary
    /\ pc \in {"finally", "exit", "done"}
    /\ pc = "done" => exitCode = 1

\* A finished run whose login was refused.
C5_Witness ==
  /\ pc = "done" /\ exitCode = 1
  /\ conn = "closed" /\ retval = "False" /\ ~raised
  /\ Len(trace) = 1 /\ ~trace[1].ok

NoRow(code) ==
  ~\E r \in coa : r.account_code = code /\ r.company_id = TEST_COMPANY_ID
                  /\ ~r.deleted

\* C6: when one of the two account codes of scenario k has no row and the
\* lookups return, scenario k sends nothing to the ledger, records exactly
\* one failed result without an entry identifier, and control passes to the
\* stage after it.
C6_UnresolvedAccount ==
  [][(pc \in Stages /\ ~raised'
      /\ (NoRow(ACCOUNTS.CASH) \/ NoRow(SecondCode(StageNo(pc))))) =>
       /\ trace' = trace
       /\ ledger' = ledger
       /\ Len(tests') = Len(tests) + 1
       /\ SubSeq(tests', 1, Len(tests)) = tests
       /\ tests'[Len(tests')].passed = "False"
       /\ tests'[Len(tests')].entry_id = None
       /\ tests'[Len(tests')].name = ScenarioName(StageNo(pc))
       /\ failed' = failed + 1 /\ passed' = passed
       /\ pc' = NextStage(pc)]_vars

\* Scenario 3 found no sales-revenue account, and scenarios 4, 5 and the
\* cross-validation ran after it; scenario 4 posted its entry.
C6_Witness ==
  /\ Len(tests) = 6
  /\ NoRow(ACCOUNTS.SALES_REVENUE)
  /\ tests[3].details[1] = "Account IDs not found"
  /\ tests[4].passed = "True"
  /\ \E i \in Requests("post") : trace[i].sid = 4
  /\ Requests("create") \cap {i \in DOMAIN trace : trace[i].sid = 3} = {}

\* The ledger holds the entry {debit 1000, credit 500} of scenario 2.
UnbalancedEntryCreated ==
  \E i \in DOMAIN ledger :
    SumDebit(ledger[i].details) = 1000 /\ SumCredit(ledger[i].details) = 500

BothResolve(k) == ~NoRow(ACCOUNTS.CASH) /\ ~NoRow(SecondCode(k))

C8_PostedEntriesBalanced ==
  /\ \A i \in Requests("post") :
       /\ trace[i].sid # 2
       /\ \E j \in Requests("create") :
            /\ j < i
            /\ trace[j].sid = trace[i].sid
            /\ trace[j].id = trace[i].id
            /\ trace[j].debit = trace[j].credit
  /\ \A j \in Requests("create") :
       trace[j].sid = 2 =>
         /\ trace[j].debit = 1000 /\ trace[j].credit = 500
         /\ \A i \in Requests("post") : trace[j].id = None \/ trace[i].id # trace[j].id

\* The ledger returned an identifier for the unbalanced entry and the run
\* went on to post the entries of scenarios 3 and 5.
C8_Witness ==
  /\ \E j \in Requests("create") : trace[j].sid = 2 /\ trace[j].id # None
  /\ \E i \in Requests("post") : trace[i].sid = 3 /\ trace[i].ok
  /\ \E i \in Requests("post") : trace[i].sid = 5

\* A recorded result of scenario 1 or of the cross-validation that went
\* through its balance check.
BalanceChecked(t) == t.details[1] \in {"Debit | Credit", "Difference"}

\* C9: with books that balance at the start and a ledger that posts entries
\* whole and refuses the unbalanced entry, after any sequence of scenario
\* invocations the global debit sum of the trial balance equals the global
\* credit sum, and every balance check recorded by scenario 1 or by the
\* cross-validation is a pass.
C9_Conservation ==
  LET tb == get_trial_balance(ledger)
  IN /\ TotalDebit(tb) = TotalCredit(tb)
     /\ IsBalanced(tb)
     /\ \A i \in 1..Len(tests) :
          BalanceChecked(tests[i]) =>
            /\ tests[i].passed = "True"
            /\ tests[i].name = ScenarioName(1) => tests[i].details[2] = tests[i].details[3]
            /\ tests[i].name = ScenarioName(6) => tests[i].details[2] = 0

\* Scenarios 5, 3 and 1 ran in that order, scenario 1 ran a second time and
\* the cross-validation passed on the accumulated balances.
C9_Witness ==
  /\ Len(tests) >= 5
  /\ tests[1].name = ScenarioName(5)
  /\ tests[2].name = ScenarioName(3)
  /\ tests[3].name = ScenarioName(1) /\ tests[3].passed = "True"
  /\ tests[4].name = ScenarioName(1) /\ tests[4].passed = "True"
  /\ tests[5].name = ScenarioName(6) /\ tests[5].passed = "True"
  /\ TotalDebit(get_trial_balance(ledger)) >= 280000

\* The numeric check of posting scenario k on a trial balance.
NumericCheck(k, tb, acc) ==
  CASE k = 1 -> TotalDebit(tb) = TotalCredit(tb)
    [] k = 3 -> acc \in DOMAIN tb /\ tb[acc].credit = 50000
    [] k = 4 -> acc \in DOMAIN tb /\ tb[acc].debit = 20000
    [] k = 5 -> acc \in DOMAIN tb /\ tb[acc].debit = 30000

\* C10: when both accounts resolve and the scenario returns, a posting
\* scenario records one result, which is passed if and only if its create
\* call returned an identifier, its post call returned success and its
\* numeric check holds on the trial balance after the post; without a row
\* for the verified account scenarios 3-5 record a failure.
C10_PassIffVerified ==
  [][(pc \in {"s1", "s3", "s4", "s5"} /\ ~raised' /\ BothResolve(StageNo(pc))) =>
       LET k       == StageNo(pc)
           new     == {i \in DOMAIN trace' : i > Len(trace)}
           created == \E i \in new : trace'[i].op = "create" /\ trace'[i].id # None
           posted  == \E i \in new : trace'[i].op = "post" /\ trace'[i].ok
           tb      == get_trial_balance(ledger')
           acc     == get_account_id(coa, SecondCode(k))
           res     == tests'[Len(tests')]
       IN /\ Len(tests') = Len(tests) + 1
          /\ res.name = ScenarioName(k)
          /\ res.passed = "True" <=> (created /\ posted /\ NumericCheck(k, tb, acc))
          /\ (res.passed = "True") = (passed' = passed + 1)
          /\ (res.passed # "True") = (failed' = failed + 1)
          /\ (k # 1 /\ acc \notin DOMAIN tb) => res.passed # "True"]_vars

\* Scenario 3 passed on a credit of 50000, scenario 4 posted but found no
\* row for the salary-expense account, scenario 5 passed.
C10_Witness ==
  /\ Len(tests) = 6
  /\ tests[3].passed = "True" /\ tests[3].details[2] = 50000
  /\ tests[4].passed = "None"
  /\ \E i \in Requests("post") : trace[i].sid = 4 /\ trace[i].ok
  /\ tests[5].passed = "True"

\* C11: an exception raised while a scenario, the cross-validation, the
\* summary or the persistence step runs reaches main's handler: main returns
\* False, the connection is closed, the process ends with exit status 1 and
\* never stops with the exception unhandled.
C11_ExceptionCaught ==
  /\ raised => pc \in {"except", "finally", "exit", "done"}
  /\ (raised /\ pc \in {"finally", "exit", "done"}) => retval = "False"
  /\ (raised /\ pc = "done") => (exitCode = 1 /\ conn = "closed" /\ closes = 1)
  /\ (raised /\ pc # "done") => ENABLED Next
  /\ pc = "except" => raised

\* A finished run in which the trial-balance read of scenario 3 raised after
\* its entry was posted: two results recorded, exit status 1.
C11_Witness ==
  /\ pc = "done" /\ raised /\ exitCode = 1
  /\ Len(tests) = 2
  /\ \E i \in Requests("post") : trace[i].sid = 3 /\ trace[i].ok
  /\ conn = "closed"

\* The calls of one method in the client's history.
Calls(op) == {i \in DOMAIN trace : trace[i].op = op}

\* The response is a 2xx answer: no transport error, status 200..299.
Is2xx(resp) == ~resp.err /\ resp.status \in 200..299

\* The body carries every field the method reads (login: data.accessToken
\* and data.user.id; create: data.id; reports: data).
WellFormed(resp) == resp.body = "ok"

\* C12: login never raises, and returns failure for every non-2xx response,
\* every transport error and every malformed response body.
C12_LoginFailure ==
  \A i \in Calls("login") :
    (~Is2xx(trace[i].resp) \/ ~WellFormed(trace[i].resp)) => ~trace[i].ok

\* C13: whenever login returns success the client holds a bearer credential
\* and a user identifier (neither is absent), and every create, post and
\* report request issued after it, up to the next login, carries the header
\* 'Bearer <that credential>'.
C13_BearerCredential ==
  \A i \in Calls("login") :
    trace[i].ok =>
      /\ trace[i].token # None
      /\ trace[i].user_id # None
      /\ \A j \in DOMAIN trace :
           (j > i /\ \A m \in i+1..j : trace[m].op # "login") =>
             trace[j].auth = get_headers(trace[i].token)

\* C14 (as stated): create_journal_entry returns the identifier found at
\* data.id for every 2xx response with a well-formed body, and returns
\* absent for every other status, malformed body and transport error.
C14_CreateEvery2xx ==
  \A i \in Calls("create") :
    LET r == trace[i].resp
    IN trace[i].id = IF Is2xx(r) /\ WellFormed(r) THEN r.id ELSE None

\* C14 (amended): create_journal_entry returns the identifier found at
\* data.id for every response with status 200 or 201 and a well-formed
\* body, and returns absent, without raising, for every other status (other
\* 2xx statuses included), every malformed body and every transport error.
C14_Create200Or201 ==
  \A i \in Calls("create") :
    LET r == trace[i].resp
    IN /\ trace[i].id =
            IF ~r.err /\ r.status \in {200, 201} /\ WellFormed(r)
            THEN r.id ELSE None
       /\ trace[i].ok = (trace[i].id # None)

\* Three create calls: a 201 answer with an identifier, which is returned;
\* a 202 answer with an identifier, which is dropped; a 201 answer whose
\* body is not JSON.
C14_Witness ==
  /\ Len(trace) = 3
  /\ trace[1].op = "create" /\ trace[1].resp.status = 201
  /\ trace[1].id = 6
  /\ trace[2].op = "create" /\ trace[2].resp.status = 202
  /\ WellFormed(trace[2].resp) /\ trace[2].id = None
  /\ trace[3].op = "create" /\ trace[3].resp.body = "notjson"
  /\ trace[3].id = None

\* The lines <<entry index, line index>> of the tenant that belong to a
\* posted, non-deleted entry of the tenant.
PostedLines(es) ==
  {p \in UNION {{<<i, j>> : j \in DOMAIN es[i].details} : i \in DOMAIN es} :
     /\ es[p[1]].company_id = TEST_COMPANY_ID
     /\ es[p[1]].status = "posted"
     /\ ~es[p[1]].deleted
     /\ es[p[1]].details[p[2]].company_id = TEST_COMPANY_ID}

LineAt(es, p) == es[p[1]].details[p[2]]

RECURSIVE SumLines(_, _, _)
SumLines(es, S, fld) ==
  IF S = {} THEN 0
  ELSE LET p == CHOOSE x \in S : TRUE
       IN (IF fld = "debit" THEN LineAt(es, p).debit_amount
           ELSE LineAt(es, p).credit_amount)
          + SumLines(es, S \ {p}, fld)

\* C15: get_trial_balance returns exactly one row per account with at least
\* one line in a posted, non-deleted entry of the tenant, whose debit and
\* credit are the sums of those lines' amounts and whose balance is debit
\* minus credit; lines of drafts, of deleted entries and of other tenants
\* contribute nothing.
C15_TrialBalance ==
  LET tb    == get_trial_balance(ledger)
      lines == PostedLines(ledger)
  IN /\ DOMAIN tb = {LineAt(ledger, p).account_id : p \in lines}
     /\ \A a \in DOMAIN tb :
          LET mine == {p \in lines : LineAt(ledger, p).account_id = a}
          IN /\ tb[a].debit = SumLines(ledger, mine, "debit")
             /\ tb[a].credit = SumLines(ledger, mine, "credit")
             /\ tb[a].balance = tb[a].debit - tb[a].credit

\* Books with a soft-deleted posted entry, a draft that scenario 1 created
\* and failed to post, and the posted entries of scenarios 3 and 4: the
\* cash row holds the debit of scenario 3 and the credit of scenario 4 only.
C15_Witness ==
  /\ Len(ledger) >= 4
  /\ ledger[1].deleted /\ ledger[1].status = "posted"
  /\ ledger[2].status = "draft"
  /\ SumDebit(ledger[2].details) = 100000
  /\ Cardinality({i \in DOMAIN ledger : ledger[i].status = "posted"
                                        /\ ~ledger[i].deleted}) = 2
  /\ 1 \in DOMAIN get_trial_balance(ledger)
  /\ get_trial_balance(ledger)[1] = BalanceRow(50000, 20000)
  /\ get_trial_balance(ledger)[1].balance = 30000

\* The events of scenario k in the trace.
Of(k) == {i \in DOMAIN trace : trace[i].sid = k}

\* C16: each scenario issues at most one create and at most one post
\* request; a post request directly follows the scenario's own create and
\* carries the identifier that create returned; the trial balance is read
\* only directly after that post returned success; after a failed create
\* or a failed post the scenario sends nothing more and reads nothing.
C16_NoRetry ==
  \A k \in 1..5 :
    /\ Cardinality(Of(k) \cap Requests("create")) <= 1
    /\ Cardinality(Of(k) \cap Requests("post")) <= 1
    /\ Cardinality(Of(k) \cap Requests("tb")) <= 1
    /\ \A i \in Of(k) :
         /\ trace[i].op = "post" =>
              /\ k # 2
              /\ i > 1 /\ trace[i-1].op = "create" /\ trace[i-1].sid = k
              /\ trace[i-1].id # None /\ trace[i].id = trace[i-1].id
         /\ trace[i].op = "tb" =>
              /\ i > 1 /\ trace[i-1].op = "post" /\ trace[i-1].sid = k
              /\ trace[i-1].ok
         /\ (trace[i].op = "create" /\ trace[i].id = None) =>
              \A j \in Of(k) : j <= i
         /\ (trace[i].op = "post" /\ ~trace[i].ok) =>
              \A j \in Of(k) : j <= i

\* Scenario 1's create returned nothing and no post followed; scenario 3's
\* post failed and no read followed; scenario 4 went through create, post
\* and the trial-balance read.
C16_Witness ==
  /\ Len(tests) >= 4
  /\ \E i \in Of(1) : trace[i].op = "create" /\ trace[i].id = None
  /\ Of(1) \cap Requests("post") = {}
  /\ \E i \in Of(3) : trace[i].op = "post" /\ ~trace[i].ok
  /\ Of(3) \cap Requests("tb") = {}
  /\ Cardinality(Of(4)) = 3
  /\ \E i \in Of(4) : trace[i].op = "tb"

\* The positions of the log whose outcome is true / is not true.
LoggedTrue == {i \in DOMAIN tests : tests[i].passed = "True"}

LoggedNotTrue == {i \in DOMAIN tests : tests[i].passed # "True"}

\* C17: after any sequence of add_test calls the passed counter equals the
\* number of logged results whose outcome is true, the failed counter the
\* number whose outcome is not true, and passed + failed the length of the
\* log.
C17_Counters ==
  /\ passed = Cardinality(LoggedTrue)
  /\ failed = Cardinality(LoggedNotTrue)
  /\ passed + failed = Len(tests)

\* A log of six results holding a pass, a failure and an outcome of None
\* (scenario 4 found no row to verify).
C17_Witness ==
  /\ Len(tests) = 6
  /\ tests[1].passed = "True"
  /\ tests[2].passed = "False"
  /\ tests[4].passed = "None"
  /\ passed = 3 /\ failed = 3

\* C18: the run log is append-only: every step of the harness leaves the
\* log as it is or adds exactly one record at its end; a scenario or the
\* cross-validation that returns adds one; the summary, the persistence
\* step and the steps after them add none.
C18_AppendOnly ==
  [][/\ Len(tests') \in {Len(tests), Len(tests) + 1}
     /\ SubSeq(tests', 1, Len(tests)) = tests
     /\ (pc \in Stages \cup {"cv"} /\ ~raised') => Len(tests') = Len(tests) + 1
     /\ (pc \notin Stages \cup {"cv"}) => tests' = tests]_vars

\* A finished run whose log holds the six records in the order they were
\* appended, after the summary and the persistence step ran.
C18_Witness ==
  /\ pc = "done" /\ summary /\ file.state = "empty"
  /\ Len(tests) = 6
  /\ \A i \in 1..6 : tests[i].timestamp = i - 1 /\ tests[i].name = ScenarioName(i)

\* No value: the path leads nowhere.
Missing == [none |-> TRUE]

\* The value found in heap h by following the keys of path p from node n.
RECURSIVE Lookup(_, _, _)
Lookup(h, n, p) ==
  IF p = << >> THEN n
  ELSE IF IsRef(n) /\ Head(p) \in DOMAIN h[n.ref]
       THEN Lookup(h, h[n.ref][Head(p)], Tail(p))
       ELSE Missing

\* Every key path a document of the model can hold.
PathUniverse == UNION {[1..n -> {"a", "b"}] : n \in 1..MaxDepth}

InBase(p) == Lookup(heap, Ref(base), p)

InUpdates(p) == Lookup(heap, Ref(updates), p)

InResult(p) == Lookup(heap', Ref(result'), p)

\* C19 (as stated): the result of deep_merge(base, updates) contains every
\* key path of either input; where both define a path, two dictionaries are
\* merged recursively and any other pair is replaced by the updates value;
\* a path only base defines keeps its base value; no object that existed
\* before the call is modified.
C19_DeepMergeAllPaths ==
  [][DeepMerge =>
       /\ \A p \in PathUniverse :
            /\ (InBase(p) # Missing \/ InUpdates(p) # Missing) =>
                 InResult(p) # Missing
            /\ (InBase(p) # Missing /\ InUpdates(p) # Missing) =>
                 IF IsRef(InBase(p)) /\ IsRef(InUpdates(p))
                 THEN IsRef(InResult(p))
                 ELSE TreeOf(heap', InResult(p)) = TreeOf(heap, InUpdates(p))
            /\ (InBase(p) # Missing /\ InUpdates(p) = Missing) =>
                 TreeOf(heap', InResult(p)) = TreeOf(heap, InBase(p))
       /\ SubSeq(heap', 1, Len(heap)) = heap]_vars

\* A proper prefix of path p at which updates holds a value while base and
\* updates do not both hold a dictionary: the result takes the updates
\* value there and drops what base had below.
Shadowed(p) ==
  \E n \in 1..(Len(p) - 1) :
    LET q == SubSeq(p, 1, n)
    IN /\ InUpdates(q) # Missing
       /\ ~(IsRef(InBase(q)) /\ IsRef(InUpdates(q)))

\* C19 (amended): the result contains every key path of updates, and every
\* key path of base except those below a path where updates holds a
\* non-dictionary value; it contains no other path.  Where both define a
\* path, two dictionaries are merged recursively and any other pair is
\* replaced by the updates value; a kept path only base defines keeps its
\* base value; no object that existed before the call is modified.
C19_DeepMerge ==
  [][DeepMerge =>
       /\ \A p \in PathUniverse :
            /\ InUpdates(p) # Missing =>
                 /\ InResult(p) # Missing
                 /\ IsRef(InResult(p)) = IsRef(InUpdates(p))
                 /\ ~(IsRef(InBase(p)) /\ IsRef(InUpdates(p))) =>
                      TreeOf(heap', InResult(p)) = TreeOf(heap, InUpdates(p))
            /\ (InBase(p) # Missing /\ InUpdates(p) = Missing) =>
                 IF Shadowed(p) THEN InResult(p) = Missing
                 ELSE TreeOf(heap', InResult(p)) = TreeOf(heap, InBase(p))
            /\ (InBase(p) = Missing /\ InUpdates(p) = Missing) =>
                 InResult(p) = Missing
       /\ SubSeq(heap', 1, Len(heap)) = heap
       /\ result' \notin 1..Len(heap)]_vars

\* A merge that recursed below "a" (base's a.a kept, a.b replaced) and put
\* the dictionary of updates in place of base's leaf at "b"; base still
\* holds its own values.
C19_Witness ==
  /\ result # None
  /\ Lookup(heap, Ref(result), <<"a", "a">>) = Leaf("old")
  /\ Lookup(heap, Ref(result), <<"a", "b">>) = Leaf("new")
  /\ Lookup(heap, Ref(result), <<"b", "a">>) = Leaf("new")
  /\ Lookup(heap, Ref(base), <<"a", "b">>) = Leaf("old")
  /\ Lookup(heap, Ref(base), <<"b">>) = Leaf("old")

\* C20: the updated Arabic document contains every flattened key of the
\* English document, keeps every existing Arabic value, and gives each
\* missing key '[TODO: AR] ' followed by the English value; building it
\* never fails, also when one document has a text where the other has a
\* nested object.
C20_UpdatedArabic ==
  /\ pc # "crashed"
  /\ pc \in {"save", "saved", "unsaved"} =>
       LET updated == flatten_dict(ar_updated, << >>)
           arabic  == flatten_dict(ar_data, << >>)
       IN /\ Keys(en_flat) \subseteq Keys(updated)
          /\ \A k \in Keys(arabic) :
               k \in Keys(updated) /\ DictGet(updated, k) = DictGet(arabic, k)
          /\ \A k \in Keys(en_flat) \ Keys(arabic) :
               DictGet(updated, k) = Todo(DictGet(en_flat, k))

\* C21: when run_all_scenarios returns, all six results are recorded and the
\* value it returns is true if and only if none of them is a failure (an
\* outcome that is not true).
C21_ReturnValue ==
  success # "unset" =>
    /\ Len(tests) = 6
    /\ success \in {"True", "False"}
    /\ success = "True" <=> \A i \in 1..6 : tests[i].passed = "True"

\* run_all_scenarios returned False on a log whose only failure is the
\* outcome None of scenario 5.
C21_Witness ==
  /\ success = "False"
  /\ Len(tests) = 6
  /\ tests[5].passed = "None"
  /\ \A i \in {1, 2, 3, 4, 6} : tests[i].passed = "True"

\* The files the merge tool overwrites, and what it loaded.
Originals == {EN_JSON, AR_JSON}

Loaded == {en_data, ar_data, missing_en, missing_ar}

BackedUp(path, backup) ==
  /\ disk[backup].state = "ok"
  /\ disk[path].state = "ok" => disk[backup] = disk[path]

\* C22: in the merge tool a file is written only when all four inputs were
\* loaded; en.json or ar.json is overwritten only when both backups hold the
\* originals' content (a backup once written is not touched again); after an
\* exception (a failed load, a failed backup) no file changes any more.
C22_BackupBeforeOverwrite ==
  [][/\ (disk' # disk) => None \notin Loaded
     /\ (\E path \in Originals : disk'[path] # disk[path]) =>
          /\ disk[EN_BACKUP].state = "ok"
          /\ disk[AR_BACKUP].state = "ok"
          /\ disk'[EN_JSON] # disk[EN_JSON] => BackedUp(EN_JSON, EN_BACKUP)
          /\ disk'[AR_JSON] # disk[AR_JSON] => BackedUp(AR_JSON, AR_BACKUP)
     /\ \A backup \in {EN_BACKUP, AR_BACKUP} :
          disk[backup].state = "ok" => disk'[backup] = disk[backup]
     /\ raised => disk' = disk]_vars

C22_Witness ==
  /\ pc = "finished"
  /\ disk[EN_BACKUP] = File("ok", Part("a", {Leaf("old")}))
  /\ disk[AR_BACKUP] = File("ok", Part("b", {Leaf("old")}))
  /\ disk[EN_JSON] = File("ok", Part("a", {Leaf("new")}))
  /\ disk[AR_JSON] = File("ok", Part("b", {Leaf("old")}) @@ Part("a", {Leaf("new")}))

\* C23: a recorded scenario result carries an entry identifier exactly when
\* that scenario's create request returned one, and then it is that
\* identifier (also when the post of the created entry failed).
C23_EntryIdRecorded ==
  \A i \in DOMAIN tests : \A k \in 1..5 :
    tests[i].name = ScenarioName(k) =>
      LET created == {trace[j].id : j \in {n \in Of(k) : trace[n].op = "create"}}
                       \ {None}
      IN IF created = {} THEN tests[i].entry_id = None
         ELSE tests[i].entry_id \in created

\* C24: a login call that returns failure leaves the client's credential
\* and user identifier as they were before the call (unset on a fresh
\* client), whatever the response.
C24_FailedLoginFrame ==
  \A i \in Calls("login") :
    ~trace[i].ok =>
      /\ trace[i].token = IF i = 1 THEN None ELSE trace[i - 1].token
      /\ trace[i].user_id = IF i = 1 THEN None ELSE trace[i - 1].user_id

\* The books as they were before the entry with identifier id was created.
Before(id) ==
  LET Earlier(e) == e.id < id
  IN SelectSeq(ledger, Earlier)

\* The aggregate scenario k verifies (credit for 3, debit for 4 and 5) of
\* its account in the trial balance of the books es.
Aggregate(k, es) ==
  LET tb  == get_trial_balance(es)
      acc == get_account_id(coa, SecondCode(k))
  IN IF acc \notin DOMAIN tb THEN 0
     ELSE IF k = 3 THEN tb[acc].credit ELSE tb[acc].debit

\* C25: with a ledger that adds exactly the posted amounts, scenario 3, 4 or
\* 5 is recorded as passed only if the aggregate it verifies was within the
\* tolerance of zero before its own posting; a later invocation of the same
\* scenario against the same tenant is recorded as failed, while scenario 1
\* and the cross-validation pass every time.
C25_PassOnlyOnFreshAccount ==
  /\ \A i \in DOMAIN tests : \A k \in {3, 4, 5} :
       tests[i].name = ScenarioName(k) =>
         /\ tests[i].passed = "True" =>
              /\ tests[i].entry_id # None
              /\ WithinTolerance(Aggregate(k, Before(tests[i].entry_id)), 0)
         /\ \A j \in DOMAIN tests :
              (j > i /\ tests[j].name = ScenarioName(k)) =>
                /\ tests[j].passed = "False"
                /\ ~WithinTolerance(Aggregate(k, Before(tests[j].entry_id)), 0)
  /\ \A i \in DOMAIN tests :
       tests[i].name \in {ScenarioName(1), ScenarioName(6)} =>
         tests[i].passed = "True"

\* Scenarios 3, 4 and 5 passed, each was invoked again and failed.
C25_Witness ==
  /\ Len(tests) = 5
  /\ tests[1].name = ScenarioName(3) /\ tests[1].passed = "True"
  /\ tests[2].name = ScenarioName(3) /\ tests[2].passed = "False"
  /\ tests[3].name = ScenarioName(1) /\ tests[3].passed = "True"
  /\ tests[4].name = ScenarioName(4) /\ tests[4].passed = "True"
  /\ tests[5].name = ScenarioName(4) /\ tests[5].passed = "False"

\* C26: once the database connection was opened it stays open while main's
\* try block runs and is closed exactly once, in the finally clause, before
\* main returns: after a failed login, after a completed run and after an
\* exception in a scenario or in the persistence step; a run with an open
\* connection can always go on to that point.
C26_ClosedExactlyOnce ==
  /\ closes \in {0, 1}
  /\ conn = "closed" <=> closes = 1
  /\ pc \in {"login", "s1", "s2", "s3", "s4", "s5", "cv", "summary",
             "persist", "except", "finally"} => conn = "open"
  /\ pc \in {"exit", "done"} => conn # "open"
  /\ conn = "none" => (pc \in {"connect", "done"} /\ trace = << >>)
  /\ conn = "open" => ENABLED Next

\* main returned after a failed login: nothing was recorded, the connection
\* was closed once.
C26_Witness ==
  /\ pc = "done" /\ ~raised
  /\ Len(trace) = 1 /\ trace[1].op = "login" /\ ~trace[1].ok
  /\ conn = "closed" /\ closes = 1
  /\ tests = << >>

\* A nested dictionary as Python compares it: by keys and values, whatever
\* the insertion order.
RECURSIVE Canon(_)
Canon(d) ==
  [k \in Keys(d) |->
     LET v == DictGet(d, k)
     IN IF IsDict(v) THEN [dict |-> Canon(v.dict)] ELSE v]

\* A flat dictionary as Python compares it.
CanonFlat(f) == [k \in Keys(f) |-> DictGet(f, k)]

\* No key of d, at any level, contains '.'.
RECURSIVE NoDotKeys(_)
NoDotKeys(d) ==
  \A i \in DOMAIN d :
    /\ \A j \in DOMAIN d[i].k : d[i].k[j] # "."
    /\ IsDict(d[i].v) => NoDotKeys(d[i].v.dict)

\* d has no empty nested dictionary.
RECURSIVE NoEmptyDict(_)
NoEmptyDict(d) ==
  \A i \in DOMAIN d :
    IsDict(d[i].v) => (d[i].v.dict # << >> /\ NoEmptyDict(d[i].v.dict))

\* Key p followed by '.' starts key k.
DottedPrefix(p, k) ==
  /\ Len(k) > Len(p)
  /\ SubSeq(k, 1, Len(p) + 1) = p \o <<".">>

NoPrefixKeys(f) ==
  \A i, j \in DOMAIN f : ~DottedPrefix(f[i].k, f[j].k)

\* C27: unflatten_dict(flatten_dict(d)) equals d for every nested
\* dictionary d whose keys contain no '.' and which has no empty nested
\* dictionary, and flatten_dict(unflatten_dict(f)) equals f for every flat
\* dictionary f in which no key is a dotted prefix of another key.
C27_RoundTrip ==
  /\ (pc = "flattened" /\ NoDotKeys(en_data) /\ NoEmptyDict(en_data)) =>
       /\ unflatten_dict(en_flat).ok
       /\ Canon(unflatten_dict(en_flat).d) = Canon(en_data)
  /\ (pc = "rebuilt" /\ NoDotKeys(en_data) /\ NoEmptyDict(en_data)) =>
       Canon(ar_updated) = Canon(en_data)
  /\ (pc = "flat" /\ NoPrefixKeys(ar_flat)) => unflatten_dict(ar_flat).ok
  /\ (pc = "reflattened" /\ NoPrefixKeys(ar_flat)) =>
       CanonFlat(en_flat) = CanonFlat(ar_flat)

====
